---- MODULE Spec2Model ----
(***************************************************************************)
(* A model of the futures price fetcher: the PriceManager price book with  *)
(* its staleness reaper and rate-limited arbitrage alerts, the exchange    *)
(* adapters that decode venue frames into price_update events, and the     *)
(* routing of those events into the book (legacy and symbol_ticker mode).  *)
(*                                                                         *)
(* Strings are sequences of tokens, so that concatenation, str.split,      *)
(* str.upper and str.replace are computed and not assumed: "BTC-PERPETUAL" *)
(* is <<"BTC", "-", "PERPETUAL">>.  Optional values (None or a value) are  *)
(* sets with at most one element.  Prices are integers; a percentage is    *)
(* the exact fraction [num, den].  Time is the integer clock `now`, in     *)
(* seconds.                                                                *)
(***************************************************************************)
EXTENDS Integers, Sequences, FiniteSets, TLC

VARIABLES
    prices,                 \* PriceManager.prices: symbol -> ordered dict exchange -> quote
    last_updated,           \* PriceManager.last_updated: "symbol-exchange" -> time
    last_arbitrage_alert,   \* PriceManager.last_arbitrage_alert: symbol -> time
    now,                    \* time.time()
    config_format,          \* config_data['format']: "legacy" or "symbol_ticker"
    last_op,                \* the operation that produced this state, its events and result
    alert_log,              \* history: every arbitrage_opportunity emission, <<symbol, time>>
    n_updates,              \* number of frames and calls handled so far
    n_ticks,                \* number of clock advances so far
    \* one entry per exchange adapter (BaseExchange instance)
    event_callbacks,        \* PriceManager.event_callbacks: event -> subscribers in order
    received,               \* history: the subscriber calls made by the last operation
    loop_tasks,             \* the tasks emit created that the event loop has yet to run
    snapshot,               \* the value a caller got from get_all_prices or get_prices_by_symbol
    shared,                 \* the (symbol, exchange) whose quote dict in snapshot is the book's own
    target_symbols,         \* CoindcxExchange.target_symbols
    last_frame,             \* the frame or response an adapter handled last
    last_prices,            \* BitmexExchange.last_prices: native ticker -> last trade price
    trade_log,              \* history: the trades the BitMEX adapter received, <<ticker, price>>
    is_connected,           \* BaseExchange.is_connected
    reconnect_attempts,     \* BaseExchange.reconnect_attempts
    subscribed_symbols,     \* BaseExchange.subscribed_symbols
    ws,                     \* BaseExchange.ws: the connection last opened, NoConn for None
    ping_task,              \* BaseExchange.ping_task: the connection it was started for
    listen_task,            \* BaseExchange.listen_task: the connection it listens on
    is_shutting_down,       \* BaseExchange.is_shutting_down
    transport,              \* whether a WebSocket handshake to the venue succeeds now
    closed,                 \* the connections that are closed (ws.closed)
    tasks,                  \* the _listen_messages task of each connection
    main_task,              \* the fetcher's _connect_to_exchange coroutine
    disconnect_task,        \* the position of a disconnect() call
    sent,                   \* history: the subscribe frames written, with their connection
    emit_log,               \* history: the max_reconnect_attempts_reached events emitted
    failed_connects,        \* history: connect() calls that raised since the last success
    ping_failed,            \* the connections whose ping_loop ended on a failed send
    active_connections,     \* CryptoFuturesPriceFetcher.active_connections
    fetcher_is_shutting_down, \* CryptoFuturesPriceFetcher.is_shutting_down
    stale_cleanup_task,     \* the cleanup_loop task of start_stale_data_cleanup
    summary_task,           \* the summary_loop task of start_periodic_summary
    run_pc,                 \* where CryptoFuturesPriceFetcher.run is
    shutdown_pc             \* where each call of CryptoFuturesPriceFetcher.shutdown is

book_vars == <<prices, last_updated, last_arbitrage_alert, now, config_format,
               last_op, alert_log, n_updates, n_ticks,
               event_callbacks, received, loop_tasks, snapshot, shared,
               target_symbols, last_frame, last_prices, trade_log>>

\* the state of the codecs that keep some between frames
codec_vars == <<last_prices, trade_log>>

conn_vars == <<is_connected, reconnect_attempts, subscribed_symbols, ws, ping_task,
               listen_task, is_shutting_down, transport, closed, tasks, main_task,
               disconnect_task, sent, emit_log, failed_connects, active_connections,
               ping_failed>>

\* the state of the fetcher's run and shutdown
app_vars == <<fetcher_is_shutting_down, stale_cleanup_task, summary_task, run_pc,
              shutdown_pc>>

vars == <<book_vars, conn_vars, app_vars>>

-----------------------------------------------------------------------------
(* Bounds of the model *)

MaxUpdates == 3
MaxAlertUpdates == 4
MaxTicks == 2
MaxVenueUpdates == 3
\* update_price calls in a run of the query specification
MaxQueryUpdates == 3
\* frames in a run of the subscriber specification
MaxEventUpdates == 3
\* frames in a run of the snapshot specification
MaxPolls == 3
MaxScaleUpdates == 3
MaxSnapUpdates == 3

-----------------------------------------------------------------------------
(* Strings *)

BTCUSDT == <<"BTC", "USDT">>
btcusdt == <<"btc", "usdt">>
BTC_PERPETUAL == <<"BTC", "-", "PERPETUAL">>
FOO_PERPETUAL == <<"FOO", "-", "PERPETUAL">>
BTCUSD == <<"BTC", "USD">>
BTC_USDT == <<"BTC", "_", "USDT">>
binance == <<"binance">>
bybit == <<"bybit">>
deribit == <<"deribit">>
gateio == <<"gateio">>
phemex == <<"phemex">>
coindcx == <<"coindcx">>
bitmex == <<"bitmex">>
ETHUSDT == <<"ETH", "USDT">>
XBTUSD == <<"XBT", "USD">>
ETHUSD == <<"ETH", "USD">>
test == <<"test">>

UpperTok(t) ==
    CASE t = "btc" -> "BTC"
      [] t = "usdt" -> "USDT"
      [] t = "foo" -> "FOO"
      [] OTHER -> t

\* str.upper()
upper(s) == [i \in 1..Len(s) |-> UpperTok(s[i])]

\* str.replace(tok, '')
remove_token(s, tok) == SelectSeq(s, LAMBDA t : t # tok)

\* ''.join(parts)
RECURSIVE Concat(_)
Concat(parts) == IF parts = <<>> THEN <<>> ELSE Head(parts) \o Concat(Tail(parts))

\* str.replace(tok, rep) for a one-token pattern
replace_token(s, tok, rep) ==
    Concat([i \in 1..Len(s) |-> IF s[i] = tok THEN rep ELSE <<s[i]>>])

\* Optional values
None == {}
Some(v) == {v}
Val(o) == CHOOSE v \in o : TRUE

\* dict[key] = value on a dict kept as a function
DictPut(d, k, v) == [x \in DOMAIN d \cup {k} |-> IF x = k THEN v ELSE d[x]]
\* del dict[key]
DictRemove(d, k) == [x \in DOMAIN d \ {k} |-> d[x]]

\* An insertion-ordered dict exchange -> quote, as Python keeps it: a sequence
\* of [exchange, data]; a new key is appended, an existing key keeps its place.
Keys(m) == {m[i].exchange : i \in 1..Len(m)}
Lookup(m, e) == m[CHOOSE i \in 1..Len(m) : m[i].exchange = e].data
\* the same, but a key that is there keeps its value
OrdPutNew(m, e, q) ==
    IF e \in Keys(m) THEN m ELSE Append(m, [exchange |-> e, data |-> q])
OrdPut(m, e, q) ==
    IF e \in Keys(m)
    THEN [i \in 1..Len(m) |-> IF m[i].exchange = e THEN [exchange |-> e, data |-> q] ELSE m[i]]
    ELSE Append(m, [exchange |-> e, data |-> q])
OrdDel(m, e) == SelectSeq(m, LAMBDA x : x.exchange # e)

-----------------------------------------------------------------------------
(* Fractions, for percentages *)

Frac(n, d) == [num |-> n, den |-> d]
\* a > b
FracGT(a, b) == a.num * b.den > b.num * a.den
\* a >= b
FracGE(a, b) == a.num * b.den >= b.num * a.den

-----------------------------------------------------------------------------
(* Program constants *)

arbitrage_alert_cooldown == 300
\* CoindcxExchange.polling_interval, in seconds
polling_interval == 2
alert_cleanup_age == 3600
\* the default min_spread_percentage of check_arbitrage_opportunities, 0.1
default_min_spread_percentage == Frac(1, 10)

\* the difference with its sign left on
Signed(x) == x
\* abs()
Abs(x) == IF x < 0 THEN -x ELSE x
Min(a, b) == IF a < b THEN a ELSE b
Max(a, b) == IF a > b THEN a ELSE b

-----------------------------------------------------------------------------
(* PriceManager: the queries, as functions of the book P = self.prices *)

\* get_prices_by_symbol: the symbol is upper-cased; None when it is no key
get_prices_by_symbol(P, symbol) ==
    IF upper(symbol) \in DOMAIN P THEN Some(P[upper(symbol)]) ELSE None

\* get_all_prices(): a new dict symbol -> exchanges.copy(). dict.copy() is
\* shallow: the copy of an inner dict holds the very quote dicts the book
\* holds, and those are listed in shared
get_all_prices(P) ==
    [value |-> P,
     shared |-> UNION {{<<symbol, exchange>> : exchange \in Keys(P[symbol])} :
                          symbol \in DOMAIN P}]

\* the value of get_prices_by_symbol(symbol), a .copy() of one inner dict,
\* as the caller holds it
prices_by_symbol_copy(P, symbol) ==
    IF get_prices_by_symbol(P, symbol) = None THEN [value |-> <<>>, shared |-> {}]
    ELSE [value |-> DictPut(<<>>, upper(symbol), Val(get_prices_by_symbol(P, symbol))),
          shared |-> {<<upper(symbol), exchange>> :
                         exchange \in Keys(Val(get_prices_by_symbol(P, symbol)))}]

get_spread(P, symbol, exchange1, exchange2) ==
    LET r == get_prices_by_symbol(P, symbol) IN
    IF r = None THEN None
    ELSE LET m == Val(r) IN
         IF m = <<>> \/ exchange1 \notin Keys(m) \/ exchange2 \notin Keys(m) THEN None
         ELSE LET price1 == Lookup(m, exchange1).price
                  price2 == Lookup(m, exchange2).price
                  spread == Abs(price1 - price2)
                  min_price == Min(price1, price2)
              IN Some([symbol |-> symbol,
                       exchanges |-> <<exchange1, exchange2>>,
                       spread |-> spread,
                       spread_percentage |->
                           IF min_price > 0 THEN Frac(spread * 100, min_price) ELSE Frac(0, 1),
                       higher |-> IF price1 > price2 THEN exchange1 ELSE exchange2,
                       lower |-> IF price1 < price2 THEN exchange1 ELSE exchange2,
                       higher_price |-> Max(price1, price2),
                       lower_price |-> min_price,
                       timestamp |-> Max(Lookup(m, exchange1).timestamp,
                                         Lookup(m, exchange2).timestamp)])

get_symbols(P) == DOMAIN P

\* sorted(opportunities, key=potential_profit, reverse=True): stable, so an
\* element goes after every element whose profit is at least its own
InsertDesc(sorted, x) ==
    LET pos == Cardinality({i \in 1..Len(sorted) :
                               FracGE(sorted[i].potential_profit, x.potential_profit)})
    IN SubSeq(sorted, 1, pos) \o <<x>> \o SubSeq(sorted, pos + 1, Len(sorted))

RECURSIVE SortDesc(_)
SortDesc(seq) ==
    IF seq = <<>> THEN <<>>
    ELSE InsertDesc(SortDesc(SubSeq(seq, 1, Len(seq) - 1)), seq[Len(seq)])

\* one pass of the loop that keeps the side of the entry at hand, whatever
\* was found before
BestStepLatest(b, exchange, data) ==
    [best_bid |->
         IF data.bid # None
         THEN Some([price |-> Val(data.bid), exchange |-> exchange,
                    timestamp |-> data.timestamp])
         ELSE b.best_bid,
     best_ask |->
         IF data.ask # None
         THEN Some([price |-> Val(data.ask), exchange |-> exchange,
                    timestamp |-> data.timestamp])
         ELSE b.best_ask]

\* one pass of the loop of get_best_prices: b is the best bid and the best
\* ask found so far, (exchange, data) the entry of prices.items() at hand
BestStep(b, exchange, data) ==
    [best_bid |->
         IF data.bid # None
            /\ (b.best_bid = None \/ Val(data.bid) > Val(b.best_bid).price)
         THEN Some([price |-> Val(data.bid), exchange |-> exchange,
                    timestamp |-> data.timestamp])
         ELSE b.best_bid,
     best_ask |->
         IF data.ask # None
            /\ (b.best_ask = None \/ Val(data.ask) < Val(b.best_ask).price)
         THEN Some([price |-> Val(data.ask), exchange |-> exchange,
                    timestamp |-> data.timestamp])
         ELSE b.best_ask]

\* the loop of get_best_prices over the first n entries of prices.items()
RECURSIVE BestLoop(_, _)
BestLoop(m, n) ==
    IF n = 0 THEN [best_bid |-> None, best_ask |-> None]
    ELSE BestStep(BestLoop(m, n - 1), m[n].exchange, m[n].data)

\* get_best_prices(symbol)
get_best_prices(P, symbol) ==
    LET r == get_prices_by_symbol(P, symbol) IN
    IF r = None \/ r = Some(<<>>) THEN None
    ELSE LET b == BestLoop(Val(r), Len(Val(r)))
             both == b.best_bid # None /\ b.best_ask # None
             spread == Val(b.best_ask).price - Val(b.best_bid).price
         IN Some([symbol |-> symbol,
                  best_bid |-> b.best_bid,
                  best_ask |-> b.best_ask,
                  spread |-> IF both THEN Some(spread) ELSE None,
                  spread_percentage |->
                      IF ~both THEN None
                      ELSE IF Val(b.best_bid).price > 0
                           THEN Some(Frac(spread * 100, Val(b.best_bid).price))
                           ELSE Some(Frac(0, 1))])

\* the two nested loops of check_arbitrage_opportunities, from (i, j) on
RECURSIVE ArbLoop(_, _, _, _, _, _)
ArbLoop(P, symbol, exchanges, min_spread_percentage, i, j) ==
    IF i > Len(exchanges) THEN <<>>
    ELSE IF j > Len(exchanges)
         THEN ArbLoop(P, symbol, exchanges, min_spread_percentage, i + 1, i + 2)
         ELSE LET spread == get_spread(P, symbol, exchanges[i], exchanges[j])
                  rest == ArbLoop(P, symbol, exchanges, min_spread_percentage, i, j + 1)
              IN IF spread # None
                    /\ FracGE(Val(spread).spread_percentage, min_spread_percentage)
                 THEN << [symbol |-> Val(spread).symbol,
                          exchanges |-> Val(spread).exchanges,
                          spread |-> Val(spread).spread,
                          spread_percentage |-> Val(spread).spread_percentage,
                          higher |-> Val(spread).higher,
                          lower |-> Val(spread).lower,
                          higher_price |-> Val(spread).higher_price,
                          lower_price |-> Val(spread).lower_price,
                          timestamp |-> Val(spread).timestamp,
                          profitable |-> TRUE,
                          buy_exchange |-> Val(spread).lower,
                          sell_exchange |-> Val(spread).higher,
                          potential_profit |-> Val(spread).spread_percentage] >> \o rest
                 ELSE rest

check_arbitrage_opportunities(P, symbol, min_spread_percentage) ==
    LET r == get_prices_by_symbol(P, symbol) IN
    IF r = None THEN <<>>
    ELSE IF Len(Val(r)) < 2 THEN <<>>
    ELSE LET exchanges == [i \in 1..Len(Val(r)) |-> Val(r)[i].exchange]
         IN SortDesc(ArbLoop(P, symbol, exchanges, min_spread_percentage, 1, 2))

_should_send_arbitrage_alert(LA, symbol, t) ==
    IF symbol \notin DOMAIN LA THEN TRUE
    ELSE (t - LA[symbol]) >= arbitrage_alert_cooldown

\* get_arbitrage_alert_status(symbol) at time t
get_arbitrage_alert_status(LA, symbol, t) ==
    IF symbol \notin DOMAIN LA
    THEN [symbol |-> symbol,
          can_send_alert |-> TRUE,
          last_alert_time |-> None,
          seconds_until_next_alert |-> 0,
          cooldown_seconds |-> arbitrage_alert_cooldown]
    ELSE LET time_since_last == t - LA[symbol] IN
         [symbol |-> symbol,
          can_send_alert |-> time_since_last >= arbitrage_alert_cooldown,
          last_alert_time |-> Some(LA[symbol]),
          seconds_since_last_alert |-> time_since_last,
          seconds_until_next_alert |-> Max(0, arbitrage_alert_cooldown - time_since_last),
          cooldown_seconds |-> arbitrage_alert_cooldown]

\* is_stale: the key is built from the symbol as given
is_stale(LU, symbol, exchange, max_age_seconds, t) ==
    LET key == symbol \o <<"-">> \o exchange IN
    IF key \notin DOMAIN LU THEN TRUE
    ELSE (t - LU[key]) > max_age_seconds

-----------------------------------------------------------------------------
(* PriceManager: the operations that change the book *)

\* f"{symbol}-{exchange}"
format_key(symbol, exchange) == symbol \o <<"-">> \o exchange

\* key.split('-', 1): the text before the first '-' and the text after it
split_key(key) ==
    LET i == CHOOSE k \in 1..Len(key) :
                 key[k] = "-" /\ \A j \in 1..(k - 1) : key[j] # "-"
    IN <<SubSeq(key, 1, i - 1), SubSeq(key, i + 1, Len(key))>>

\* A subscriber is a plain function or a coroutine function, and it returns
\* or raises an Exception when it handles an event.
Subscriber(coroutine, raises) == [coroutine |-> coroutine, raises |-> raises]

\* what a subscriber that reads the book for the pair of a price_update finds
book_quote(P, symbol, exchange) ==
    IF symbol \in DOMAIN P /\ exchange \in Keys(P[symbol])
    THEN Some(Lookup(P[symbol], exchange))
    ELSE None

\* what a subscriber called with the event finds in book P
seen(P, ev) ==
    IF ev.event = "price_update" THEN book_quote(P, ev.data.symbol, ev.data.exchange)
    ELSE None

\* one callback of emit with no try around it: an exception leaves emit
emit_call_uncaught(acc, index, callback, ev, P) ==
    IF callback.coroutine
    THEN [acc EXCEPT !.tasks = Append(@, [subscriber |-> index, event |-> ev,
                                          superseded |-> FALSE])]
    ELSE [acc EXCEPT !.calls = Append(@, [subscriber |-> index, event |-> ev,
                                          outcome |-> IF callback.raises THEN "raised"
                                                      ELSE "returned",
                                          saw |-> seen(P, ev),
                                          task |-> FALSE,
                                          superseded |-> FALSE]),
                     !.escaped = callback.raises]

\* one callback of emit, inside its try: a coroutine function is wrapped in a
\* task for the event loop, a plain function is called on the spot and its
\* Exception is caught and logged
emit_call(acc, index, callback, ev, P) ==
    IF callback.coroutine
    THEN [acc EXCEPT !.tasks = Append(@, [subscriber |-> index, event |-> ev,
                                          superseded |-> FALSE])]
    ELSE [acc EXCEPT !.calls = Append(@, [subscriber |-> index, event |-> ev,
                                          outcome |-> IF callback.raises THEN "raised"
                                                      ELSE "returned",
                                          saw |-> seen(P, ev),
                                          task |-> FALSE,
                                          superseded |-> FALSE])]

\* the loop of emit over the first n callbacks of the event; an exception
\* that leaves a callback ends the loop
RECURSIVE emit_loop(_, _, _, _)
emit_loop(callbacks, n, ev, P) ==
    IF n = 0 THEN [calls |-> <<>>, tasks |-> <<>>, escaped |-> FALSE]
    ELSE LET acc == emit_loop(callbacks, n - 1, ev, P)
         IN IF acc.escaped THEN acc
            ELSE emit_call(acc, n, callbacks[n], ev, P)

\* PriceManager.emit(event, data) while the book is P
emit(CB, ev, P) ==
    IF ev.event \in DOMAIN CB
    THEN emit_loop(CB[ev.event], Len(CB[ev.event]), ev, P)
    ELSE [calls |-> <<>>, tasks |-> <<>>, escaped |-> FALSE]

\* update_price raising the alert without looking at the opportunities found
update_price_unguarded(P, LU, LA, t, price_data) ==
    LET symbol == price_data.symbol
        exchange == price_data.exchange
        P0 == IF symbol \notin DOMAIN P THEN DictPut(P, symbol, <<>>) ELSE P
        quote == [price |-> price_data.price,
                  bid |-> price_data.bid,
                  ask |-> price_data.ask,
                  timestamp |-> price_data.timestamp]
        P1 == [P0 EXCEPT ![symbol] = OrdPut(@, exchange, quote)]
        LU1 == DictPut(LU, format_key(symbol, exchange), t)
        price_update == [event |-> "price_update",
                         data |-> [symbol |-> symbol, exchange |-> exchange, data |-> quote]]
        opportunities == check_arbitrage_opportunities(P1, symbol, default_min_spread_percentage)
        send == _should_send_arbitrage_alert(LA, symbol, t)
    IN [prices |-> P1,
        last_updated |-> LU1,
        last_arbitrage_alert |-> IF send THEN DictPut(LA, symbol, t) ELSE LA,
        events |-> IF send
                   THEN <<price_update, [event |-> "arbitrage_opportunity", data |-> opportunities]>>
                   ELSE <<price_update>>,
        alerted |-> IF send THEN {<<symbol, t>>} ELSE {}]

\* update_price(price_data) at time t: the new book, the new stamps and the
\* events emitted, in order
update_price(P, LU, LA, t, price_data) ==
    LET symbol == price_data.symbol
        exchange == price_data.exchange
        P0 == IF symbol \notin DOMAIN P THEN DictPut(P, symbol, <<>>) ELSE P
        quote == [price |-> price_data.price,
                  bid |-> price_data.bid,
                  ask |-> price_data.ask,
                  timestamp |-> price_data.timestamp]
        P1 == [P0 EXCEPT ![symbol] = OrdPut(@, exchange, quote)]
        LU1 == DictPut(LU, format_key(symbol, exchange), t)
        price_update == [event |-> "price_update",
                         data |-> [symbol |-> symbol, exchange |-> exchange, data |-> quote]]
        opportunities == check_arbitrage_opportunities(P1, symbol, default_min_spread_percentage)
        send == opportunities # <<>> /\ _should_send_arbitrage_alert(LA, symbol, t)
    IN [prices |-> P1,
        last_updated |-> LU1,
        last_arbitrage_alert |-> IF send THEN DictPut(LA, symbol, t) ELSE LA,
        events |-> IF send
                   THEN <<price_update, [event |-> "arbitrage_opportunity", data |-> opportunities]>>
                   ELSE <<price_update>>,
        alerted |-> IF send THEN {<<symbol, t>>} ELSE {}]

\* the same step without the removal of a symbol left with no exchange
reap_key_keeps_empty_symbol(st, key) ==
    LET symbol == split_key(key)[1]
        exchange == split_key(key)[2]
        found == symbol \in DOMAIN st.prices /\ exchange \in Keys(st.prices[symbol])
        st1 == IF ~found THEN st
               ELSE [st EXCEPT !.prices = DictPut(@, symbol, OrdDel(st.prices[symbol], exchange)),
                               !.removed_count = @ + 1]
    IN [st1 EXCEPT !.last_updated = DictRemove(@, key)]

\* emit when the event has no subscriber
no_calls == [calls |-> <<>>, tasks |-> <<>>, escaped |-> FALSE]

\* what update_price leaves behind: r is the book and the events it computed,
\* e1 and e2 what emit did with the first and the second event; the alert is
\* stamped after both went through
update_price_outcome(LA, r, e1, e2) ==
    LET done == ~e1.escaped /\ ~e2.escaped
    IN [prices |-> r.prices,
        last_updated |-> r.last_updated,
        last_arbitrage_alert |-> IF done THEN r.last_arbitrage_alert ELSE LA,
        events |-> IF e1.escaped THEN <<r.events[1]>> ELSE r.events,
        alerted |-> IF done THEN r.alerted ELSE {},
        calls |-> e1.calls \o e2.calls,
        tasks |-> e1.tasks \o e2.tasks]

\* the second emit of update_price, of arbitrage_opportunity, reached when
\* there is one and the first emit returned
update_price_emit_second(CB, LA, r, e1) ==
    update_price_outcome(LA, r, e1,
                         IF Len(r.events) = 2 /\ ~e1.escaped
                         THEN emit(CB, r.events[2], r.prices)
                         ELSE no_calls)

\* the emits of update_price; the subscribers of price_update find book P
update_price_emit(CB, LA, r, P) ==
    update_price_emit_second(CB, LA, r, emit(CB, r.events[1], P))

\* update_price handing the event to the subscribers before it writes the book
run_update_price_emit_first(CB, P, LU, LA, t, price_data) ==
    update_price_emit(CB, LA, update_price(P, LU, LA, t, price_data), P)

\* the emits of update_price after the book was written
update_price_then_emit(CB, LA, r) ==
    update_price_emit(CB, LA, r, r.prices)

\* update_price with its subscribers: the events of update_price go through
\* emit in their order, each after the book was written; an exception that
\* leaves emit ends update_price where it is
run_update_price(CB, P, LU, LA, t, price_data) ==
    update_price_then_emit(CB, LA, update_price(P, LU, LA, t, price_data))

\* the same step deleting the symbol of the stale key with all its exchanges
reap_key_whole_symbol(st, key) ==
    LET symbol == split_key(key)[1]
        exchange == split_key(key)[2]
        found == symbol \in DOMAIN st.prices /\ exchange \in Keys(st.prices[symbol])
        st1 == IF ~found THEN st
               ELSE [st EXCEPT !.prices = DictRemove(@, symbol),
                               !.removed_count = @ + 1,
                               !.symbols_to_remove = @ \cup {symbol}]
    IN [st1 EXCEPT !.last_updated = DictRemove(@, key)]

\* the same step without noting the symbol that was left with no exchange
reap_key_keeps_alert(st, key) ==
    LET symbol == split_key(key)[1]
        exchange == split_key(key)[2]
        found == symbol \in DOMAIN st.prices /\ exchange \in Keys(st.prices[symbol])
        inner == OrdDel(st.prices[symbol], exchange)
        st1 == IF ~found THEN st
               ELSE IF inner = <<>>
                    THEN [st EXCEPT !.prices = DictRemove(@, symbol),
                                    !.removed_count = @ + 1]
                    ELSE [st EXCEPT !.prices = DictPut(@, symbol, inner),
                                    !.removed_count = @ + 1]
    IN [st1 EXCEPT !.last_updated = DictRemove(@, key)]

\* the same step counting every stale key, whether a quote went with it or not
reap_key_counts_keys(st, key) ==
    LET symbol == split_key(key)[1]
        exchange == split_key(key)[2]
        found == symbol \in DOMAIN st.prices /\ exchange \in Keys(st.prices[symbol])
        inner == OrdDel(st.prices[symbol], exchange)
        st1 == IF ~found THEN st
               ELSE IF inner = <<>>
                    THEN [st EXCEPT !.prices = DictRemove(@, symbol),
                                    !.symbols_to_remove = @ \cup {symbol}]
                    ELSE [st EXCEPT !.prices = DictPut(@, symbol, inner)]
    IN [st1 EXCEPT !.last_updated = DictRemove(@, key),
                   !.removed_count = @ + 1]

\* one pass of the loop of remove_stale_data over the stale keys; st carries
\* prices, last_updated, removed_count and symbols_to_remove
reap_key(st, key) ==
    LET symbol == split_key(key)[1]
        exchange == split_key(key)[2]
        found == symbol \in DOMAIN st.prices /\ exchange \in Keys(st.prices[symbol])
        inner == OrdDel(st.prices[symbol], exchange)
        st1 == IF ~found THEN st
               ELSE IF inner = <<>>
                    THEN [st EXCEPT !.prices = DictRemove(@, symbol),
                                    !.removed_count = @ + 1,
                                    !.symbols_to_remove = @ \cup {symbol}]
                    ELSE [st EXCEPT !.prices = DictPut(@, symbol, inner),
                                    !.removed_count = @ + 1]
    IN [st1 EXCEPT !.last_updated = DictRemove(@, key)]

RECURSIVE reap_loop(_, _)
reap_loop(stale_keys, st) ==
    IF stale_keys = {} THEN st
    ELSE LET key == CHOOSE k \in stale_keys : TRUE
         IN reap_loop(stale_keys \ {key}, reap_key(st, key))

\* remove_stale_data giving up after the first stale key
remove_stale_data_one_key(P, LU, LA, t, max_age_seconds) ==
    LET all_stale == {key \in DOMAIN LU : (t - LU[key]) > max_age_seconds}
        stale_keys == IF all_stale = {} THEN {} ELSE {CHOOSE k \in all_stale : TRUE}
        st == reap_loop(stale_keys, [prices |-> P, last_updated |-> LU,
                                     removed_count |-> 0, symbols_to_remove |-> {}])
        LA1 == [s \in DOMAIN LA \ st.symbols_to_remove |-> LA[s]]
        stale_alert_symbols == {s \in DOMAIN LA1 : (t - LA1[s]) > alert_cleanup_age}
    IN [prices |-> st.prices,
        last_updated |-> st.last_updated,
        last_arbitrage_alert |-> [s \in DOMAIN LA1 \ stale_alert_symbols |-> LA1[s]],
        removed_count |-> st.removed_count]

\* remove_stale_data(max_age_seconds) at time t
remove_stale_data(P, LU, LA, t, max_age_seconds) ==
    LET stale_keys == {key \in DOMAIN LU : (t - LU[key]) > max_age_seconds}
        st == reap_loop(stale_keys, [prices |-> P, last_updated |-> LU,
                                     removed_count |-> 0, symbols_to_remove |-> {}])
        LA1 == [s \in DOMAIN LA \ st.symbols_to_remove |-> LA[s]]
        stale_alert_symbols == {s \in DOMAIN LA1 : (t - LA1[s]) > alert_cleanup_age}
    IN [prices |-> st.prices,
        last_updated |-> st.last_updated,
        last_arbitrage_alert |-> [s \in DOMAIN LA1 \ stale_alert_symbols |-> LA1[s]],
        removed_count |-> st.removed_count]

-----------------------------------------------------------------------------
(* Exchange adapters: decoding a venue frame into a price_update event *)

\* DeribitExchange._convert_to_deribit_symbol
_convert_to_deribit_symbol(symbol) ==
    IF symbol = BTCUSDT THEN BTC_PERPETUAL
    ELSE remove_token(symbol, "USDT") \o <<"-", "PERPETUAL">>

\* DeribitExchange._convert_from_deribit_symbol
_convert_from_deribit_symbol(deribit_symbol) ==
    IF deribit_symbol = BTC_PERPETUAL THEN BTCUSDT
    ELSE LET dashes == {k \in 1..Len(deribit_symbol) : deribit_symbol[k] = "-"}
             first == IF dashes = {} THEN Len(deribit_symbol) + 1
                      ELSE CHOOSE k \in dashes : \A j \in dashes : k <= j
         IN SubSeq(deribit_symbol, 1, first - 1) \o <<"USDT">>

\* GateioExchange._convert_to_gateio_symbol
_convert_to_gateio_symbol(symbol) ==
    IF symbol = BTCUSDT THEN BTC_USDT
    ELSE replace_token(symbol, "USDT", <<"_", "USDT">>)

\* GateioExchange._convert_from_gateio_symbol: replace('_USDT', 'USDT')
_convert_from_gateio_symbol(gateio_symbol) ==
    Concat([i \in 1..Len(gateio_symbol) |->
               IF /\ gateio_symbol[i] = "_"
                  /\ i < Len(gateio_symbol)
                  /\ gateio_symbol[i + 1] = "USDT"
               THEN <<>>
               ELSE <<gateio_symbol[i]>>])

\* PhemexExchange._convert_from_phemex_symbol: replace('USD', 'USDT') finds
\* 'USD' inside 'USDT' as well
_convert_from_phemex_symbol(phemex_symbol) ==
    IF phemex_symbol = BTCUSD THEN BTCUSDT
    ELSE Concat([i \in 1..Len(phemex_symbol) |->
                    IF phemex_symbol[i] = "USD" THEN <<"USDT">>
                    ELSE IF phemex_symbol[i] = "USDT" THEN <<"USDT", "T">>
                    ELSE <<phemex_symbol[i]>>])

\* normalize_symbol of the adapter called name
\* BitmexExchange._convert_to_bitmex_symbol
_convert_to_bitmex_symbol(symbol) ==
    IF symbol = BTCUSDT THEN XBTUSD
    ELSE IF symbol = ETHUSDT THEN ETHUSD
    ELSE remove_token(symbol, "USDT") \o <<"USD">>

\* BitmexExchange._convert_from_bitmex_symbol
_convert_from_bitmex_symbol(bitmex_symbol) ==
    IF bitmex_symbol = XBTUSD THEN BTCUSDT
    ELSE IF bitmex_symbol = ETHUSD THEN ETHUSDT
    ELSE replace_token(bitmex_symbol, "USD", <<"USDT">>)

normalize_symbol(name, symbol) ==
    IF name = deribit THEN _convert_to_deribit_symbol(symbol)
    ELSE IF name = bitmex THEN _convert_to_bitmex_symbol(symbol)
    ELSE IF name = gateio THEN _convert_to_gateio_symbol(symbol)
    ELSE upper(symbol)

\* BaseExchange.format_price_data at time t; bid and ask are optional
format_price_data(name, symbol, price, bid, ask, timestamp, t) ==
    [exchange |-> name,
     symbol |-> normalize_symbol(name, symbol),
     price |-> price,
     bid |-> bid,
     ask |-> ask,
     timestamp |-> IF timestamp # 0 THEN timestamp ELSE t * 1000]

\* BinanceExchange._handle_price_update: the event emitted, if any
binance_handle_price_update(data, t) ==
    LET price == (data.b + data.a) \div 2
    IN Some(format_price_data(binance, data.s, price, Some(data.b), Some(data.a), data.T, t))

\* BybitExchange._handle_price_update: the event emitted, if any
bybit_handle_price_update(message, t) ==
    LET price == (message.b + message.a) \div 2
    IN Some(format_price_data(bybit, message.symbol, price,
                              Some(message.b), Some(message.a), message.ts, t))

\* DeribitExchange._handle_price_update: the event emitted, if any
deribit_handle_price_update(data, t) ==
    LET symbol == _convert_from_deribit_symbol(data.instrument_name) IN
    IF data.last_price = 0 \/ data.best_bid_price = 0 \/ data.best_ask_price = 0 THEN None
    ELSE IF data.last_price <= 0 \/ data.best_bid_price <= 0 \/ data.best_ask_price <= 0
         THEN None
         ELSE Some(format_price_data(deribit, symbol, data.last_price,
                                     Some(data.best_bid_price), Some(data.best_ask_price),
                                     data.timestamp, t))

\* GateioExchange._parse_gateio_timestamp of a ticker with a numeric `time`;
\* time < 1e12 is written without the number 1e12
_parse_gateio_timestamp(data, t) ==
    IF data.time # 0
    THEN IF data.time \div 1000 < 1000000000 THEN data.time * 1000 ELSE data.time
    ELSE t * 1000

\* GateioExchange._process_ticker_data: the event emitted, if any
gateio_process_ticker_data(data, t) ==
    LET symbol == _convert_from_gateio_symbol(data.contract)
        price == data.last
        mark == IF data.mark_price # 0 THEN data.mark_price ELSE price
        spread == price \div 10000
    IN IF data.last = 0 THEN None
       ELSE Some(format_price_data(gateio, symbol, price,
                                   Some(mark - spread \div 2), Some(mark + spread \div 2),
                                   _parse_gateio_timestamp(data, t), t))

\* one scale for every symbol
phemex_scale_flat(phemex_symbol) == 10000

\* PhemexExchange.scale_factors.get(phemex_symbol, 10000)
phemex_scale(phemex_symbol) ==
    IF phemex_symbol \in {<<"XRP", "USD">>, <<"ADA", "USD">>} THEN 100000000 ELSE 10000

\* PhemexExchange._handle_direct_orderbook_update: the event emitted, if
\* any; a level of the book is <<scaled price, size>>
phemex_handle_direct_orderbook_update(message, t) ==
    LET symbol == _convert_from_phemex_symbol(message.symbol)
        valid_bids == SelectSeq(message.bids, LAMBDA bid : Len(bid) >= 2 /\ bid[2] > 0)
        valid_asks == SelectSeq(message.asks, LAMBDA ask : Len(ask) >= 2 /\ ask[2] > 0)
        scale == phemex_scale(message.symbol)
    IN IF valid_bids = <<>> \/ valid_asks = <<>> THEN None
       ELSE LET best_bid == valid_bids[1][1] \div scale
                best_ask == valid_asks[1][1] \div scale
            IN Some(format_price_data(phemex, symbol, (best_bid + best_ask) \div 2,
                                      Some(best_bid), Some(best_ask),
                                      message.timestamp \div 1000000, t))

\* the raw price of the first level of one side of an orderbook.update
\* book, 0 when the level is empty
phemex_first_raw(levels) ==
    IF Len(levels[1]) > 0 THEN levels[1][1] ELSE 0

\* PhemexExchange._handle_price_update, the orderbook.update format: the
\* event emitted, if any; the first level of each side is taken whatever its
\* size, and the timestamp of the book is taken as it is
phemex_handle_price_update(message, t) ==
    LET symbol == _convert_from_phemex_symbol(message.symbol)
        scale == phemex_scale(message.symbol)
    IN IF message.bids = <<>> \/ message.asks = <<>> THEN None
       ELSE LET best_bid_raw == phemex_first_raw(message.bids)
                best_ask_raw == phemex_first_raw(message.asks)
            IN IF best_bid_raw = 0 \/ best_ask_raw = 0 THEN None
               ELSE LET best_bid == best_bid_raw \div scale
                        best_ask == best_ask_raw \div scale
                    IN Some(format_price_data(phemex, symbol,
                                              (best_bid + best_ask) \div 2,
                                              Some(best_bid), Some(best_ask),
                                              message.timestamp, t))

\* PhemexExchange.handle_message on a frame that is neither a confirmation
\* nor an error: a frame with a book and a symbol is a direct update, one
\* with method orderbook.update and params an update of the old format, and
\* any other is ignored
phemex_handle_message(message, t) ==
    IF message.format = "book" THEN phemex_handle_direct_orderbook_update(message, t)
    ELSE IF message.format = "orderbook.update" THEN phemex_handle_price_update(message, t)
    ELSE None

\* CoindcxExchange._convert_from_coindcx_symbol
_convert_from_coindcx_symbol(coindcx_symbol) == upper(coindcx_symbol)

\* the timestamp of a ticker in milliseconds: a non-zero one below 1e12 is
\* taken for seconds
coindcx_timestamp(timestamp) ==
    IF timestamp # 0 /\ timestamp \div 1000 < 1000000000 THEN timestamp * 1000
    ELSE timestamp

\* CoindcxExchange._handle_rest_ticker_update: the event emitted, if any; a
\* field of the ticker that is missing or falsy is None, and a missing bid or
\* ask is approximated from the price
coindcx_handle_rest_ticker_update(ticker_data, t) ==
    IF ticker_data.market = <<>> THEN None
    ELSE IF ticker_data.last_price = None THEN None
    ELSE LET symbol == _convert_from_coindcx_symbol(ticker_data.market)
             price == Val(ticker_data.last_price)
             bid == IF ticker_data.bid # None THEN Val(ticker_data.bid)
                    ELSE (price * 999) \div 1000
             ask == IF ticker_data.ask # None THEN Val(ticker_data.ask)
                    ELSE (price * 1001) \div 1000
         IN IF price > 0
            THEN Some(format_price_data(coindcx, symbol, price, Some(bid), Some(ask),
                                        coindcx_timestamp(ticker_data.timestamp), t))
            ELSE None

\* CoindcxExchange._process_ticker_response on a list of tickers: the events
\* emitted, in order, one for each ticker of a tracked market that
\* _handle_rest_ticker_update accepts
RECURSIVE coindcx_process_ticker_response(_, _, _)
coindcx_process_ticker_response(data, targets, t) ==
    IF data = <<>> THEN <<>>
    ELSE LET ticker == Head(data)
             emitted == IF ticker.market # <<>> /\ ticker.market \in targets
                        THEN coindcx_handle_rest_ticker_update(ticker, t)
                        ELSE None
             rest == coindcx_process_ticker_response(Tail(data), targets, t)
         IN IF emitted = None THEN rest ELSE <<Val(emitted)>> \o rest

-----------------------------------------------------------------------------
(* Routing of an adapter's price_update event into the book *)

\* config_data['pairs'] of the symbol_ticker format
pairs ==
    << [display_symbol |-> BTCUSDT, exchange |-> binance, ticker |-> BTCUSDT],
       [display_symbol |-> BTCUSDT, exchange |-> bybit, ticker |-> BTCUSDT],
       [display_symbol |-> BTCUSDT, exchange |-> deribit, ticker |-> BTC_PERPETUAL],
       [display_symbol |-> BTCUSDT, exchange |-> gateio, ticker |-> BTC_USDT],
       [display_symbol |-> BTCUSD, exchange |-> phemex, ticker |-> BTCUSD] >>

\* the pairs that match (exchange_name, ticker), by position
matching_pairs(data, exchange_name) ==
    {i \in 1..Len(pairs) : pairs[i].exchange = exchange_name /\ pairs[i].ticker = data.symbol}

\* SimplePriceFetcher._handle_price_update_with_mapping: what it hands to
\* PriceManager.update_price, if anything
_handle_price_update_with_mapping(data, exchange_name) ==
    LET found == matching_pairs(data, exchange_name) IN
    IF found # {}
    THEN LET i == CHOOSE k \in found : \A j \in found : k <= j
         IN Some([data EXCEPT !.symbol = pairs[i].display_symbol])
    ELSE Some(data)

\* the callback registered for the adapter's price_update event
route(data, exchange_name, format) ==
    IF format = "symbol_ticker"
    THEN _handle_price_update_with_mapping(data, exchange_name)
    ELSE Some(data)

-----------------------------------------------------------------------------
(* Inputs *)

\* bookTicker frames of Binance: symbol, best bid, best ask, transaction time
BinanceQuote == [s |-> BTCUSDT, b |-> 99, a |-> 101, T |-> 0]
BinanceZero == [s |-> BTCUSDT, b |-> 0, a |-> 0, T |-> 5000]
BinanceFrames == {BinanceQuote, BinanceZero}

\* orderbook frames of Bybit: topic symbol, best bid, best ask, ts
BybitQuote == [symbol |-> BTCUSDT, b |-> 100, a |-> 102, ts |-> 6000]
BybitFrames == {BybitQuote}

\* ticker notifications of Deribit
DeribitQuote ==
    [instrument_name |-> BTC_PERPETUAL, last_price |-> 102, best_bid_price |-> 101,
     best_ask_price |-> 103, timestamp |-> 7000]
DeribitFoo ==
    [instrument_name |-> FOO_PERPETUAL, last_price |-> 50, best_bid_price |-> 49,
     best_ask_price |-> 51, timestamp |-> 7000]
DeribitFrames == {DeribitQuote, DeribitFoo}

\* futures.tickers updates of Gate.io: contract, last, mark_price, time in s
GateioQuote == [contract |-> BTC_USDT, last |-> 20000, mark_price |-> 20000, time |-> 8]
GateioFrames == {GateioQuote}

\* orderbook frames of Phemex: symbol, levels <<scaled price, size>>, time in ns
PhemexQuote ==
    [symbol |-> BTCUSD, bids |-> << <<990000, 5>> >>, asks |-> << <<1010000, 5>> >>,
     timestamp |-> 2000000000]
PhemexFrames == {PhemexQuote}

\* frames of Phemex in one of its formats: the symbol and the book of a
\* direct update, or params of an orderbook.update; the raw prices are
\* multiples of the scale with an even sum, so that the prices and their
\* mean are whole numbers
PhemexMessage(format, symbol, bids, asks) ==
    [format |-> format, symbol |-> symbol, bids |-> bids, asks |-> asks,
     timestamp |-> 2000000000]

\* books: BTCUSD 60001 / 60003, XRPUSD (scale 100000000) 1 / 3, SOLUSD (not
\* in scale_factors) 150 / 152, BTCUSD behind a bid level of size 0, and
\* BTCUSD with no asks
PhemexBooks ==
    { <<BTCUSD, << <<600010000, 5>> >>, << <<600030000, 7>> >> >>,
      <<<<"XRP", "USD">>, << <<100000000, 5>> >>, << <<300000000, 7>> >> >>,
      <<<<"SOL", "USD">>, << <<1500000, 5>> >>, << <<1520000, 7>> >> >>,
      <<BTCUSD, << <<600050000, 0>>, <<600010000, 5>> >>, << <<600030000, 7>> >> >>,
      <<BTCUSD, << <<600010000, 5>> >>, << >> >> }

PhemexMessages ==
    { PhemexMessage(format, book[1], book[2], book[3]) :
          <<format, book>> \in {"book", "orderbook.update", "other"} \X PhemexBooks }

\* tickers of the CoinDCX REST endpoint: market, last_price, bid, ask and a
\* timestamp in seconds (0 when the ticker has none)
CoindcxTicker(market, last_price, quoted, timestamp) ==
    [market |-> market,
     last_price |-> last_price,
     bid |-> IF quoted /\ last_price # None THEN Some(Val(last_price) - 1000) ELSE None,
     ask |-> IF quoted /\ last_price # None THEN Some(Val(last_price) + 1000) ELSE None,
     timestamp |-> timestamp]

\* last prices a poll fetches: 100000, the same moved by 0.001%, by 0.01% and
\* by 1%, and none (a missing last_price or a zero)
CoindcxPrices == {Some(100000), Some(100001), Some(100010), Some(101000), None}

\* responses of a poll: the tracked market alone, or behind a market that is
\* never tracked
CoindcxResponses ==
    LET other == CoindcxTicker(<<"ETH", "USDT">>, Some(3000000), TRUE, 1234)
    IN UNION {{ <<CoindcxTicker(BTCUSDT, last_price, quoted, timestamp)>>,
                <<other, CoindcxTicker(BTCUSDT, last_price, quoted, timestamp)>> } :
              <<last_price, quoted, timestamp>> \in
                  CoindcxPrices \X BOOLEAN \X {0, 1234}}
       \cup { <<other>> }

\* price_data of direct update_price calls
ApiQuote ==
    [symbol |-> btcusdt, exchange |-> test, price |-> 100, bid |-> Some(99),
     ask |-> None, timestamp |-> 1234]
ApiInputs == {ApiQuote}

\* min_spread_percentage of check_arbitrage_opportunities calls: the default
\* 0.1, and 1 and 1.5
Thresholds == {default_min_spread_percentage, Frac(1, 1), Frac(3, 2)}

\* max_age_seconds of remove_stale_data calls: the reaper's 300, and 0
MaxAges == {0, 300}

\* how far the clock may advance in one step, in seconds
TickSteps == {1, 300, 3301}

-----------------------------------------------------------------------------
(* Exchange adapters and their connections *)

hyperliquid == <<"hyperliquid">>

LowerTok(t) ==
    CASE t = "BTC" -> "btc"
      [] t = "ETH" -> "eth"
      [] t = "USDT" -> "usdt"
      [] OTHER -> t

\* str.lower()
lower(s) == [i \in 1..Len(s) |-> LowerTok(s[i])]

\* The adapters of the model: one that inherits subscribe from BaseExchange
\* and one that overrides it
Adapters == {binance, hyperliquid}

\* exchange_config[exchange_name]: the symbols to subscribe to on each exchange
configured_symbols == <<BTCUSDT, ETHUSDT>>

max_reconnect_attempts == 10

\* Connections of one adapter are numbered in the order they are opened
MaxConns == 2
Conns == 1..MaxConns
NoConn == 0

\* PhemexExchange._convert_to_phemex_symbol
_convert_to_phemex_symbol(symbol) ==
    IF symbol = BTCUSDT THEN BTCUSD
    ELSE replace_token(symbol, "USDT", <<"USD">>)

\* get_subscribe_message(symbol), without the request id
get_subscribe_message(name, symbol) ==
    IF name = hyperliquid
    THEN [method |-> "subscribe", params |-> <<"allMids">>]
    ELSE IF name = deribit
    THEN [method |-> "public/subscribe",
          params |-> <<"ticker.">> \o _convert_to_deribit_symbol(symbol) \o <<".100ms">>]
    ELSE IF name = gateio
    THEN [method |-> "subscribe", params |-> _convert_to_gateio_symbol(symbol)]
    ELSE IF name = phemex
    THEN [method |-> "orderbook.subscribe", params |-> _convert_to_phemex_symbol(symbol)]
    ELSE [method |-> "SUBSCRIBE", params |-> lower(symbol) \o <<"@bookTicker">>]

\* subscribe(symbol) on adapter `name` whose fields are connected, symbols and
\* w, cl being the closed connections and out the frames written so far;
\* raised tells whether the call ended in an exception
base_subscribe(name, symbol, connected, symbols, w, cl, out) ==
    IF ~connected
    THEN [subscribed_symbols |-> symbols, sent |-> out, raised |-> TRUE]
    ELSE IF w = NoConn \/ w \in cl
    THEN [subscribed_symbols |-> symbols \cup {symbol}, sent |-> out, raised |-> TRUE]
    ELSE [subscribed_symbols |-> symbols \cup {symbol},
          sent |-> Append(out, [conn |-> w, frame |-> get_subscribe_message(name, symbol)]),
          raised |-> FALSE]

hyperliquid_subscribe(name, symbol, connected, symbols, w, cl, out) ==
    LET added == symbols \cup {symbol}
    IN IF Cardinality(added) = 1 /\ w # NoConn /\ w \notin cl
       THEN [subscribed_symbols |-> added,
             sent |-> Append(out, [conn |-> w, frame |-> get_subscribe_message(name, symbol)]),
             raised |-> FALSE]
       ELSE [subscribed_symbols |-> added, sent |-> out, raised |-> FALSE]

\* get_unsubscribe_message of the adapters
get_unsubscribe_message(name, symbol) ==
    IF name = hyperliquid
    THEN [method |-> "unsubscribe", params |-> <<"allMids">>]
    ELSE [method |-> "UNSUBSCRIBE", params |-> lower(symbol) \o <<"@bookTicker">>]

\* BaseExchange.unsubscribe
base_unsubscribe(name, symbol, connected, symbols, w, cl, out) ==
    IF ~connected
    THEN [subscribed_symbols |-> symbols, sent |-> out, raised |-> FALSE]
    ELSE IF w = NoConn \/ w \in cl
    THEN [subscribed_symbols |-> symbols \ {symbol}, sent |-> out, raised |-> TRUE]
    ELSE [subscribed_symbols |-> symbols \ {symbol},
          sent |-> Append(out, [conn |-> w, frame |-> get_unsubscribe_message(name, symbol)]),
          raised |-> FALSE]

\* HyperliquidExchange.unsubscribe
hyperliquid_unsubscribe(name, symbol, connected, symbols, w, cl, out) ==
    LET removed == symbols \ {symbol}
    IN IF removed = {} /\ w # NoConn /\ w \notin cl
       THEN [subscribed_symbols |-> removed,
             sent |-> Append(out, [conn |-> w, frame |-> get_unsubscribe_message(name, symbol)]),
             raised |-> FALSE]
       ELSE [subscribed_symbols |-> removed, sent |-> out, raised |-> FALSE]

unsubscribe(name, symbol, connected, symbols, w, cl, out) ==
    IF name = hyperliquid
    THEN hyperliquid_unsubscribe(name, symbol, connected, symbols, w, cl, out)
    ELSE base_unsubscribe(name, symbol, connected, symbols, w, cl, out)

subscribe(name, symbol, connected, symbols, w, cl, out) ==
    IF name = hyperliquid
    THEN hyperliquid_subscribe(name, symbol, connected, symbols, w, cl, out)
    ELSE base_subscribe(name, symbol, connected, symbols, w, cl, out)

\* A _listen_messages task: where it is (pc), and, once it is in
\* _handle_disconnect, the symbols subscribed when it entered (at_disconnect),
\* the connection it reopened (new_ws), the symbols it still has to
\* re-subscribe (todo) and how it ended (outcome)
\* the callers of CryptoFuturesPriceFetcher.shutdown: the task the signal
\* handler creates, and run's finally block
ShutdownCallers == {"signal", "run"}

NoTask ==
    [pc |-> "none", todo |-> {}, at_disconnect |-> {}, new_ws |-> NoConn,
     outcome |-> "none"]
Listening == [NoTask EXCEPT !.pc = "listening"]

InitConn ==
    /\ is_connected = [a \in Adapters |-> FALSE]
    /\ reconnect_attempts = [a \in Adapters |-> 0]
    /\ subscribed_symbols = [a \in Adapters |-> {}]
    /\ ws = [a \in Adapters |-> NoConn]
    /\ ping_task = [a \in Adapters |-> NoConn]
    /\ listen_task = [a \in Adapters |-> NoConn]
    /\ is_shutting_down = [a \in Adapters |-> FALSE]
    /\ transport = [a \in Adapters |-> "up"]
    /\ closed = [a \in Adapters |-> {}]
    /\ tasks = [a \in Adapters |-> [c \in Conns |-> NoTask]]
    /\ main_task = [a \in Adapters |-> [pc |-> "connect", todo |-> <<>>]]
    /\ disconnect_task = [a \in Adapters |-> "idle"]
    /\ sent = [a \in Adapters |-> <<>>]
    /\ emit_log = [a \in Adapters |-> <<>>]
    /\ failed_connects = [a \in Adapters |-> 0]
    /\ active_connections = {}
    /\ ping_failed = {}
    /\ fetcher_is_shutting_down = FALSE
    /\ stale_cleanup_task = "none"
    /\ summary_task = "none"
    /\ run_pc = "initialize"
    /\ shutdown_pc = [k \in ShutdownCallers |-> "none"]

-----------------------------------------------------------------------------
(* Actions *)

\* Quotes given to update_price directly, for the queries: one symbol on
\* three exchanges, with equal and different prices, a price of 0, equal and
\* different bids and asks, and sides left out
QueryQuotes ==
    {[price |-> 3000, bid |-> Some(2999), ask |-> Some(3001)],
     [price |-> 3010, bid |-> Some(3009), ask |-> Some(3011)],
     [price |-> 3000, bid |-> None, ask |-> Some(3001)],
     [price |-> 0, bid |-> Some(2999), ask |-> None],
     [price |-> 3010, bid |-> None, ask |-> None]}
QueryExchanges == {binance, bybit, deribit}
QueryInputs ==
    {[symbol |-> ETHUSDT, exchange |-> e, price |-> q.price, bid |-> q.bid,
      ask |-> q.ask, timestamp |-> 1234] :
        e \in QueryExchanges, q \in QueryQuotes}

\* Subscribers registered with on(): two for price_update, of every kind,
\* and for arbitrage_opportunity a plain one that raises before a plain one
\* that returns, or a coroutine function
SubscriberKinds == {Subscriber(c, r) : c \in BOOLEAN, r \in BOOLEAN}
CallbackSets ==
    {[price_update |-> <<a, b>>, arbitrage_opportunity |-> q] :
        a \in SubscriberKinds, b \in SubscriberKinds,
        q \in {<<Subscriber(FALSE, TRUE), Subscriber(FALSE, FALSE)>>,
                <<Subscriber(TRUE, FALSE)>>}}

\* the subscribers the fetcher registers: on_price_update and
\* on_arbitrage_opportunity, plain functions
main_callbacks ==
    [price_update |-> <<Subscriber(FALSE, FALSE)>>,
     arbitrage_opportunity |-> <<Subscriber(FALSE, FALSE)>>]

\* PriceManager.__init__
InitStore ==
    /\ prices = <<>>
    /\ last_updated = <<>>
    /\ last_arbitrage_alert = <<>>
    /\ now = 0
    /\ last_op = [op |-> "init", route |-> "none", arg |-> <<>>, events |-> <<>>, ret |-> 0]
    /\ alert_log = {}
    /\ n_updates = 0
    /\ n_ticks = 0
    /\ received = <<>>
    /\ loop_tasks = <<>>
    /\ snapshot = <<>>
    /\ shared = {}
    /\ target_symbols = {}
    /\ last_frame = <<>>
    /\ last_prices = <<>>
    /\ trade_log = <<>>

InitBook ==
    /\ InitStore
    /\ event_callbacks = main_callbacks

Init ==
    /\ InitBook
    /\ InitConn
    /\ config_format \in {"legacy", "symbol_ticker"}

\* PriceManager.update_price(price_data) is called; tag says how it was reached
CallUpdatePrice(price_data, tag) ==
    \E r \in {run_update_price(event_callbacks, prices, last_updated,
                                last_arbitrage_alert, now, price_data)} :
        /\ prices' = r.prices
        /\ last_updated' = r.last_updated
        /\ last_arbitrage_alert' = r.last_arbitrage_alert
        /\ alert_log' = alert_log \cup r.alerted
        /\ last_op' = [op |-> "update_price", route |-> tag, arg |-> price_data,
                       events |-> r.events, ret |-> 0]
        /\ received' = r.calls
        /\ loop_tasks' = [i \in 1..Len(loop_tasks) |->
                             IF /\ loop_tasks[i].event.event = "price_update"
                                /\ loop_tasks[i].event.data.symbol = price_data.symbol
                                /\ loop_tasks[i].event.data.exchange = price_data.exchange
                             THEN [loop_tasks[i] EXCEPT !.superseded = TRUE]
                             ELSE loop_tasks[i]] \o r.tasks
        /\ shared' = shared \ {<<price_data.symbol, price_data.exchange>>}
        /\ UNCHANGED <<event_callbacks, snapshot>>

\* a frame was decoded and nothing reached the book
Dropped(frame, tag) ==
    /\ UNCHANGED <<prices, last_updated, last_arbitrage_alert, alert_log,
                   event_callbacks, loop_tasks, snapshot, shared>>
    /\ received' = <<>>
    /\ last_op' = [op |-> "frame", route |-> tag, arg |-> frame, events |-> <<>>, ret |-> 0]

\* how the callback registered for price_update treats the event
route_tag(data, exchange_name, format) ==
    IF format # "symbol_ticker" THEN "legacy"
    ELSE IF matching_pairs(data, exchange_name) # {} THEN "mapped" ELSE "unmapped"

\* an adapter handled a frame: emitted is the price_update event it emits, if
\* any, which its price_update callback routes into the book
\* the adapter emits what it decoded from the frame and the fetcher hands
\* it to the price manager
DeliverFrame(frame, emitted, exchange_name, limit) ==
    /\ n_updates < limit
    /\ n_updates' = n_updates + 1
    /\ last_frame' = frame
    /\ UNCHANGED <<now, config_format, n_ticks, target_symbols, conn_vars, app_vars>>
    /\ IF emitted = None THEN Dropped(frame, "dropped")
       ELSE LET routed == route(Val(emitted), exchange_name, config_format)
                tag == route_tag(Val(emitted), exchange_name, config_format)
            IN IF routed = None THEN Dropped(frame, tag)
               ELSE CallUpdatePrice(Val(routed), tag)

\* the same for a codec that keeps nothing between frames
Deliver(frame, emitted, exchange_name, limit) ==
    /\ DeliverFrame(frame, emitted, exchange_name, limit)
    /\ UNCHANGED codec_vars

BinanceFrame(frames, limit) ==
    \E data \in frames :
        Deliver(data, binance_handle_price_update(data, now), binance, limit)

BybitFrame(frames, limit) ==
    \E message \in frames :
        Deliver(message, bybit_handle_price_update(message, now), bybit, limit)

DeribitFrame(frames, limit) ==
    \E data \in frames :
        Deliver(data, deribit_handle_price_update(data, now), deribit, limit)

GateioFrame(frames, limit) ==
    \E data \in frames :
        Deliver(data, gateio_process_ticker_data(data, now), gateio, limit)

PhemexFrame(frames, limit) ==
    \E message \in frames :
        Deliver(message, phemex_handle_direct_orderbook_update(message, now), phemex, limit)

\* CoindcxExchange.subscribe of an adapter not connected to Socket.io: the
\* symbol is tracked from now on (subscribed_symbols of this adapter holds the
\* same symbols)
CoindcxSubscribe(symbols) ==
    \E symbol \in symbols :
        /\ symbol \notin target_symbols
        /\ target_symbols' = target_symbols \cup {symbol}
        /\ last_op' = [op |-> "subscribe", route |-> "none", arg |-> symbol,
                       events |-> <<>>, ret |-> 0]
        /\ received' = <<>>
        /\ UNCHANGED <<prices, last_updated, last_arbitrage_alert, now, config_format,
                       alert_log, n_updates, n_ticks, event_callbacks, loop_tasks,
                       snapshot, shared, last_frame, codec_vars, conn_vars, app_vars>>

\* one round of CoindcxExchange._polling_loop while the adapter is connected:
\* _fetch_ticker_data gets a response and _process_ticker_response handles
\* it; the responses carry at most one tracked market, so at most one event
\* is emitted
CoindcxPoll(responses, limit) ==
    /\ target_symbols # {}
    /\ \E data \in responses :
           \E events \in {coindcx_process_ticker_response(data, target_symbols, now)} :
               /\ Len(events) <= 1
               /\ Deliver(data, IF events = <<>> THEN None ELSE Some(events[1]),
                          coindcx, limit)

\* PhemexExchange.handle_message on a frame of either format
\* BitmexExchange._parse_timestamp: an ISO time, kept as its seconds and
\* milliseconds, to milliseconds; 0 for an empty string
bitmex_parse_timestamp(timestamp_str) ==
    IF timestamp_str = <<>> THEN 0
    ELSE timestamp_str.seconds * 1000 + timestamp_str.millis

\* BitmexExchange._handle_quote_update: the events emitted for the items of
\* the data list, in order
RECURSIVE bitmex_handle_quote_update(_, _, _)
bitmex_handle_quote_update(data_list, LP, t) ==
    IF data_list = <<>> THEN <<>>
    ELSE LET data == Head(data_list)
             rest == bitmex_handle_quote_update(Tail(data_list), LP, t)
             symbol == _convert_from_bitmex_symbol(data.symbol)
             last_price == IF data.symbol \in DOMAIN LP THEN Some(LP[data.symbol]) ELSE None
             price == IF last_price # None /\ Val(last_price) # 0
                      THEN Val(last_price)
                      ELSE (data.bidPrice + data.askPrice) \div 2
         IN IF data.symbol = <<>> THEN rest
            ELSE IF data.bidPrice = 0 \/ data.askPrice = 0 THEN rest
            ELSE <<format_price_data(bitmex, symbol, price, Some(data.bidPrice),
                                     Some(data.askPrice),
                                     bitmex_parse_timestamp(data.timestamp), t)>> \o rest

\* a trade handler that files the price under every ticker it has seen
RECURSIVE bitmex_handle_trade_update_shared(_, _)
bitmex_handle_trade_update_shared(data_list, LP) ==
    IF data_list = <<>> THEN LP
    ELSE LET data == Head(data_list)
             keys == DOMAIN LP \cup {data.symbol}
         IN bitmex_handle_trade_update_shared(
                Tail(data_list),
                IF data.symbol # <<>> /\ data.price # 0
                THEN [k \in keys |-> data.price]
                ELSE LP)

\* BitmexExchange._handle_trade_update: last_prices after the items of the
\* data list
RECURSIVE bitmex_handle_trade_update(_, _)
bitmex_handle_trade_update(data_list, LP) ==
    IF data_list = <<>> THEN LP
    ELSE LET data == Head(data_list)
         IN bitmex_handle_trade_update(
                Tail(data_list),
                IF data.symbol # <<>> /\ data.price # 0
                THEN DictPut(LP, data.symbol, data.price)
                ELSE LP)

\* BitmexExchange.handle_message: last_prices afterwards and the events emitted
bitmex_handle_message(message, LP, t) ==
    IF message.table = "quote"
    THEN [last_prices |-> LP, events |-> bitmex_handle_quote_update(message.data, LP, t)]
    ELSE IF message.table = "trade"
    THEN [last_prices |-> bitmex_handle_trade_update(message.data, LP), events |-> <<>>]
    ELSE [last_prices |-> LP, events |-> <<>>]

BitmexQuote(symbol, bid, ask) ==
    [table |-> "quote",
     data |-> <<[symbol |-> symbol, bidPrice |-> bid, askPrice |-> ask,
                 timestamp |-> [seconds |-> 2000000, millis |-> 0]]>>]
\* a trade frame with one item per <<ticker, price>>
BitmexTrade(trades) ==
    [table |-> "trade",
     data |-> [i \in 1..Len(trades) |-> [symbol |-> trades[i][1], price |-> trades[i][2]]]]

\* the frames the BitMEX feed sends: quotes of two tickers, one of them
\* without a bid, trades of both tickers, one of them without a price and
\* one frame with two trades, and the welcome frame
BitmexMessages ==
    { BitmexQuote(XBTUSD, 60000, 60002),
      BitmexQuote(ETHUSD, 3000, 3002),
      BitmexQuote(XBTUSD, 0, 60002),
      BitmexTrade(<< <<XBTUSD, 60100>> >>),
      BitmexTrade(<< <<XBTUSD, 60150>>, <<XBTUSD, 60200>> >>),
      BitmexTrade(<< <<ETHUSD, 3010>> >>),
      BitmexTrade(<< <<XBTUSD, 0>> >>),
      [table |-> "info", data |-> <<>>] }

\* the trades of a frame that carry a price, as <<ticker, price>>
TradesOf(message) ==
    IF message.table # "trade" THEN <<>>
    ELSE LET priced == SelectSeq(message.data, LAMBDA d : d.symbol # <<>> /\ d.price # 0)
         IN [i \in 1..Len(priced) |-> <<priced[i].symbol, priced[i].price>>]

\* BitmexExchange._listen_messages hands one frame of the feed to handle_message
BitmexHandleMessage(frames, limit) ==
    \E message \in frames :
        \E r \in {bitmex_handle_message(message, last_prices, now)} :
            /\ Len(r.events) <= 1
            /\ last_prices' = r.last_prices
            /\ trade_log' = trade_log \o TradesOf(message)
            /\ DeliverFrame(message, IF r.events = <<>> THEN None ELSE Some(r.events[1]),
                            bitmex, limit)

PhemexHandleMessage(frames, limit) ==
    \E message \in frames :
        Deliver(message, phemex_handle_message(message, now), phemex, limit)

\* update_price called directly on the price manager
ApiUpdatePrice(inputs, limit) ==
    \E price_data \in inputs :
        /\ n_updates < limit
        /\ n_updates' = n_updates + 1
        /\ UNCHANGED <<now, config_format, n_ticks, target_symbols, last_frame, codec_vars, conn_vars, app_vars>>
        /\ CallUpdatePrice(price_data, "api")

RemoveStaleData(ages) ==
    \E max_age_seconds \in ages :
        \E r \in {remove_stale_data(prices, last_updated, last_arbitrage_alert, now,
                                    max_age_seconds)} :
            /\ prices' = r.prices
            /\ last_updated' = r.last_updated
            /\ last_arbitrage_alert' = r.last_arbitrage_alert
            /\ last_op' = [op |-> "remove_stale_data", route |-> "none",
                           arg |-> max_age_seconds, events |-> <<>>,
                           ret |-> r.removed_count]
            /\ received' = <<>>
            /\ shared' = shared \cap get_all_prices(r.prices).shared
            /\ UNCHANGED <<now, config_format, alert_log, n_updates, n_ticks,
                           event_callbacks, loop_tasks, snapshot, target_symbols,
                           last_frame, codec_vars, conn_vars, app_vars>>

Tick(steps, limit) ==
    \E d \in steps :
        /\ n_ticks < limit
        /\ n_ticks' = n_ticks + 1
        /\ now' = now + d
        /\ last_op' = [op |-> "tick", route |-> "none", arg |-> d, events |-> <<>>, ret |-> 0]
        /\ received' = <<>>
        /\ UNCHANGED <<prices, last_updated, last_arbitrage_alert, config_format,
                       alert_log, n_updates, event_callbacks, loop_tasks, snapshot,
                       shared, target_symbols, last_frame, codec_vars, conn_vars, app_vars>>

\* The book fed by three adapters and by direct calls, in either format
Next ==
    \/ BinanceFrame(BinanceFrames, MaxUpdates)
    \/ BybitFrame(BybitFrames, MaxUpdates)
    \/ DeribitFrame(DeribitFrames, MaxUpdates)
    \/ ApiUpdatePrice(ApiInputs, MaxUpdates)
    \/ RemoveStaleData(MaxAges)
    \/ Tick(TickSteps, MaxTicks)

Spec == Init /\ [][Next]_vars

\* Two venues quoting one symbol in the legacy format, followed for longer:
\* the runs in which alerts are raised, reaped and raised again
AlertInit ==
    /\ InitBook
    /\ InitConn
    /\ InitConn
    /\ config_format = "legacy"

AlertNext ==
    \/ BinanceFrame({BinanceQuote}, MaxAlertUpdates)
    \/ BybitFrame({BybitQuote}, MaxAlertUpdates)
    \/ RemoveStaleData(MaxAges)
    \/ Tick(TickSteps, MaxTicks)

AlertSpec == AlertInit /\ [][AlertNext]_vars

\* Four venues quoting the same contract, each in its own notation, in
\* either format
VenueNext ==
    \/ BinanceFrame({BinanceQuote}, MaxVenueUpdates)
    \/ DeribitFrame({DeribitQuote}, MaxVenueUpdates)
    \/ GateioFrame(GateioFrames, MaxVenueUpdates)
    \/ PhemexFrame(PhemexFrames, MaxVenueUpdates)

VenueSpec == Init /\ [][VenueNext]_vars

\* the event loop runs the task that has waited longest: the coroutine of
\* the subscriber starts, reads the book and returns or raises
RunTask ==
    /\ loop_tasks # <<>>
    /\ LET task == Head(loop_tasks)
           callback == event_callbacks[task.event.event][task.subscriber]
       IN /\ received' = <<[subscriber |-> task.subscriber, event |-> task.event,
                            outcome |-> IF callback.raises THEN "raised" ELSE "returned",
                            saw |-> seen(prices, task.event),
                            task |-> TRUE,
                            superseded |-> task.superseded]>>
          /\ last_op' = [op |-> "task", route |-> "none", arg |-> task.subscriber,
                         events |-> <<>>, ret |-> 0]
    /\ loop_tasks' = Tail(loop_tasks)
    /\ UNCHANGED <<prices, last_updated, last_arbitrage_alert, now, config_format,
                   alert_log, n_updates, n_ticks, event_callbacks, snapshot, shared,
                   target_symbols, last_frame, codec_vars, conn_vars, app_vars>>

\* the clock moves on while no task is waiting for the event loop: a task
\* that is ready runs before a second has passed
EventTick == loop_tasks = <<>> /\ Tick(TickSteps, MaxTicks)

\* PriceManager.on, called for each subscriber before the first frame
\* arrives, as the fetcher does in its constructor
SetupEventHandlers(registrations) ==
    /\ event_callbacks = <<>>
    /\ event_callbacks' \in registrations
    /\ last_op' = [op |-> "on", route |-> "none", arg |-> <<>>, events |-> <<>>, ret |-> 0]
    /\ UNCHANGED <<prices, last_updated, last_arbitrage_alert, now, config_format,
                   alert_log, n_updates, n_ticks, received, loop_tasks, snapshot, shared,
                   target_symbols, last_frame, codec_vars, conn_vars, app_vars>>

\* PriceManager.__init__: no subscriber yet
EventInit ==
    /\ InitStore
    /\ InitConn
    /\ config_format = "legacy"
    /\ event_callbacks = <<>>

\* Two venues quoting one symbol to a book with subscribers of every kind
EventNext ==
    \/ SetupEventHandlers(CallbackSets)
    \/ event_callbacks # <<>> /\ BinanceFrame(BinanceFrames, MaxEventUpdates)
    \/ event_callbacks # <<>> /\ BybitFrame({BybitQuote}, MaxEventUpdates)
    \/ RunTask
    \/ event_callbacks # <<>> /\ RemoveStaleData(MaxAges)
    \/ event_callbacks # <<>> /\ EventTick

EventSpec == EventInit /\ [][EventNext]_vars

\* a caller keeps what a query returned
KeepReturned(op, arg, r) ==
    /\ snapshot' = r.value
    /\ shared' = r.shared
    /\ received' = <<>>
    /\ last_op' = [op |-> op, route |-> "none", arg |-> arg, events |-> <<>>, ret |-> 0]
    /\ UNCHANGED <<prices, last_updated, last_arbitrage_alert, now, config_format,
                   alert_log, n_updates, n_ticks, event_callbacks, loop_tasks,
                   target_symbols, last_frame, codec_vars, conn_vars, app_vars>>

GetAllPrices == KeepReturned("get_all_prices", <<>>, get_all_prices(prices))

GetPricesBySymbol(symbols) ==
    \E symbol \in symbols :
        KeepReturned("get_prices_by_symbol", symbol, prices_by_symbol_copy(prices, symbol))

\* the caller assigns to a field of a quote dict inside the value it holds:
\* returned[symbol][exchange]['price'] = value. The dict is changed in place,
\* for everyone who holds it
ChangeReturnedQuote(value) ==
    \E symbol \in DOMAIN snapshot : \E exchange \in Keys(snapshot[symbol]) :
        LET changed == [Lookup(snapshot[symbol], exchange) EXCEPT !.price = value] IN
        /\ snapshot' = [snapshot EXCEPT ![symbol] = OrdPut(@, exchange, changed)]
        /\ prices' = IF <<symbol, exchange>> \in shared
                      THEN [prices EXCEPT ![symbol] = OrdPut(@, exchange, changed)]
                      ELSE prices
        /\ received' = <<>>
        /\ last_op' = [op |-> "change_returned", route |-> "none",
                       arg |-> <<symbol, exchange>>, events |-> <<>>, ret |-> 0]
        /\ UNCHANGED <<last_updated, last_arbitrage_alert, now, config_format, alert_log,
                       n_updates, n_ticks, event_callbacks, loop_tasks, shared,
                       target_symbols, last_frame, codec_vars, conn_vars, app_vars>>

\* the caller deletes an exchange from the value it holds:
\* del returned[symbol][exchange]
DropReturnedEntry ==
    \E symbol \in DOMAIN snapshot : \E exchange \in Keys(snapshot[symbol]) :
        /\ snapshot' = [snapshot EXCEPT ![symbol] = OrdDel(@, exchange)]
        /\ shared' = shared \ {<<symbol, exchange>>}
        /\ received' = <<>>
        /\ last_op' = [op |-> "change_returned", route |-> "none",
                       arg |-> <<symbol, exchange>>, events |-> <<>>, ret |-> 0]
        /\ UNCHANGED <<prices, last_updated, last_arbitrage_alert, now, config_format,
                       alert_log, n_updates, n_ticks, event_callbacks, loop_tasks,
                       target_symbols, last_frame, codec_vars, conn_vars, app_vars>>

\* The book and a caller that keeps, and changes, what the queries returned
SnapNext ==
    \/ BinanceFrame({BinanceQuote}, MaxSnapUpdates)
    \/ BybitFrame({BybitQuote}, MaxSnapUpdates)
    \/ GetAllPrices
    \/ GetPricesBySymbol({BTCUSDT, btcusdt})
    \/ ChangeReturnedQuote(7)
    \/ DropReturnedEntry
    \/ RemoveStaleData(MaxAges)
    \/ Tick(TickSteps, MaxTicks)

SnapSpec == AlertInit /\ [][SnapNext]_vars

\* The book written by direct calls while the clock runs, for the queries
\* The CoinDCX adapter polling its REST endpoint every polling_interval
\* seconds into a book that Binance feeds too
PollNext ==
    \/ CoindcxSubscribe({BTCUSDT})
    \/ CoindcxPoll(CoindcxResponses, MaxPolls)
    \/ BinanceFrame({BinanceQuote}, MaxPolls)
    \/ Tick({polling_interval}, MaxTicks)

PollSpec == AlertInit /\ [][PollNext]_vars

\* The Phemex adapter alone feeding the book with frames of both formats
ScaleNext ==
    \/ PhemexHandleMessage(PhemexMessages, MaxScaleUpdates)
    \/ Tick(TickSteps, MaxTicks)

ScaleSpec == AlertInit /\ [][ScaleNext]_vars

MaxTradeUpdates == 4

TradeNext ==
    \/ BitmexHandleMessage(BitmexMessages, MaxTradeUpdates)
    \/ Tick({1}, MaxTicks)

\* The book fed by the BitMEX adapter
TradeSpec == AlertInit /\ [][TradeNext]_vars

QueryInit ==
    /\ InitBook
    /\ InitConn
    /\ config_format = "legacy"

QueryNext ==
    \/ ApiUpdatePrice(QueryInputs, MaxQueryUpdates)
    \/ Tick({1}, MaxTicks)

QuerySpec == QueryInit /\ [][QueryNext]_vars

\* PriceManager.get_exchanges
get_exchanges(P) == UNION {Keys(P[symbol]) : symbol \in DOMAIN P}

\* PriceManager.get_market_summary
get_market_summary(P, t) ==
    [total_symbols |-> Cardinality(get_symbols(P)),
     total_exchanges |-> Cardinality(get_exchanges(P)),
     symbols |-> get_symbols(P),
     exchanges |-> get_exchanges(P),
     last_update |-> t,
     price_count |-> Cardinality(get_all_prices(P).shared)]

\* the value a query method of the price manager returns
query_result(call, P, LU, LA, t) ==
    CASE call.name = "get_prices_by_symbol" -> get_prices_by_symbol(P, call.symbol)
      [] call.name = "get_all_prices" -> get_all_prices(P).value
      [] call.name = "get_spread" ->
             get_spread(P, call.symbol, call.exchange1, call.exchange2)
      [] call.name = "get_best_prices" -> get_best_prices(P, call.symbol)
      [] call.name = "check_arbitrage_opportunities" ->
             check_arbitrage_opportunities(P, call.symbol, call.min_spread_percentage)
      [] call.name = "get_arbitrage_alert_status" ->
             get_arbitrage_alert_status(LA, call.symbol, t)
      [] call.name = "get_market_summary" -> get_market_summary(P, t)
      [] call.name = "is_stale" ->
             is_stale(LU, call.symbol, call.exchange, call.max_age_seconds, t)

\* a query whose check for opportunities alerts as update_price does
call_query_alerting(call, P, LU, LA, t) ==
    LET ret == query_result(call, P, LU, LA, t)
        alerts == /\ call.name = "check_arbitrage_opportunities"
                  /\ ret # <<>>
                  /\ _should_send_arbitrage_alert(LA, call.symbol, t)
    IN [prices |-> P, last_updated |-> LU,
        last_arbitrage_alert |-> IF alerts THEN DictPut(LA, call.symbol, t) ELSE LA,
        events |-> IF alerts THEN <<[event |-> "arbitrage_opportunity", data |-> ret]>>
                   ELSE <<>>,
        ret |-> ret]

\* a query method of the price manager, called on the manager with the
\* fields P, LU and LA at time t: the fields and the events afterwards (no
\* query method assigns to a field or calls emit) and the value returned
call_query(call, P, LU, LA, t) ==
    [prices |-> P, last_updated |-> LU, last_arbitrage_alert |-> LA,
     events |-> <<>>,
     ret |-> query_result(call, P, LU, LA, t)]

\* the queries callers make
QueryCalls ==
    LET S == {ETHUSDT, BTCUSDT}
        E == {binance, bybit}
    IN UNION {
        {[name |-> "get_prices_by_symbol", symbol |-> sym] : sym \in S},
        {[name |-> "get_all_prices"]},
        {[name |-> "get_spread", symbol |-> ETHUSDT, exchange1 |-> binance,
          exchange2 |-> e2] : e2 \in {bybit, deribit}},
        {[name |-> "get_best_prices", symbol |-> sym] : sym \in S},
        {[name |-> "check_arbitrage_opportunities", symbol |-> sym,
          min_spread_percentage |-> th] :
             sym \in S, th \in {Frac(0, 1), default_min_spread_percentage}},
        {[name |-> "get_arbitrage_alert_status", symbol |-> sym] : sym \in S},
        {[name |-> "get_market_summary"]},
        {[name |-> "is_stale", symbol |-> ETHUSDT, exchange |-> e,
          max_age_seconds |-> 60] : e \in E} }

\* A caller makes one of the queries
Query(calls) ==
    \E call \in calls :
        \E r \in {call_query(call, prices, last_updated, last_arbitrage_alert, now)} :
            /\ prices' = r.prices
            /\ last_updated' = r.last_updated
            /\ last_arbitrage_alert' = r.last_arbitrage_alert
            /\ alert_log' = alert_log \cup
                   {<<r.events[i].data[1].symbol, now>> : i \in 1..Len(r.events)}
            /\ last_op' = [op |-> call.name, route |-> "query", arg |-> call,
                           events |-> r.events, ret |-> r.ret]
            /\ received' = <<>>
            /\ UNCHANGED <<now, config_format, n_updates, n_ticks, event_callbacks,
                           loop_tasks, snapshot, shared, target_symbols, last_frame,
                           codec_vars, conn_vars, app_vars>>

\* the updates between the queries: two exchanges quoting one symbol at
\* prices 10 apart
AskedInputs ==
    {[symbol |-> ETHUSDT, exchange |-> e, price |-> p, bid |-> Some(p - 1),
      ask |-> Some(p + 1), timestamp |-> 1234] :
        e \in {binance, bybit}, p \in {3000, 3010}}

MaxAskedUpdates == 3

AskedNext ==
    \/ ApiUpdatePrice(AskedInputs, MaxAskedUpdates)
    \/ Query(QueryCalls)
    \/ Tick({1, 300}, MaxTicks)

\* The book with callers that query it
AskedSpec == QueryInit /\ [][AskedNext]_vars

-----------------------------------------------------------------------------
(* Actions of the adapters *)

\* connect() of adapter a returned: connection n is open, on_connect has
\* started the ping task, and a new _listen_messages task listens on n.
\* T is `tasks` as the caller leaves it.
ConnectSucceeds(a, n, T) ==
    /\ ws' = [ws EXCEPT ![a] = n]
    /\ is_connected' = [is_connected EXCEPT ![a] = TRUE]
    /\ reconnect_attempts' = [reconnect_attempts EXCEPT ![a] = 0]
    /\ ping_task' = [ping_task EXCEPT ![a] = n]
    /\ listen_task' = [listen_task EXCEPT ![a] = n]
    /\ tasks' = [T EXCEPT ![a][n] = Listening]
    /\ failed_connects' = [failed_connects EXCEPT ![a] = 0]

\* connect() of adapter a raised
ConnectFails(a) ==
    /\ failed_connects' = [failed_connects EXCEPT ![a] = @ + 1]
    /\ UNCHANGED <<ws, is_connected, reconnect_attempts, ping_task, listen_task>>

\* _connect_to_exchange: await exchange.connect()
MainConnect(a) ==
    /\ main_task[a].pc = "connect"
    /\ IF transport[a] = "up"
       THEN /\ ConnectSucceeds(a, ws[a] + 1, tasks)
            /\ active_connections' = active_connections \cup {a}
            /\ main_task' = [main_task EXCEPT ![a] =
                                [pc |-> "subscribe", todo |-> configured_symbols]]
       ELSE /\ ConnectFails(a)
            /\ main_task' = [main_task EXCEPT ![a] = [pc |-> "failed", todo |-> <<>>]]
            /\ UNCHANGED <<tasks, active_connections>>
    /\ UNCHANGED <<subscribed_symbols, is_shutting_down, transport, closed,
                   disconnect_task, sent, emit_log>>
    /\ UNCHANGED <<ping_failed, book_vars, app_vars>>

\* _connect_to_exchange: one turn of the loop over the configured symbols; an
\* exception of subscribe is logged and the loop goes on
MainSubscribe(a) ==
    /\ main_task[a].pc = "subscribe"
    /\ \E r \in {subscribe(a, Head(main_task[a].todo), is_connected[a],
                           subscribed_symbols[a], ws[a], closed[a], sent[a])} :
          /\ subscribed_symbols' = [subscribed_symbols EXCEPT ![a] = r.subscribed_symbols]
          /\ sent' = [sent EXCEPT ![a] = r.sent]
    /\ main_task' = [main_task EXCEPT ![a] =
                        IF Len(main_task[a].todo) = 1
                        THEN [pc |-> "done", todo |-> <<>>]
                        ELSE [pc |-> "subscribe", todo |-> Tail(main_task[a].todo)]]
    /\ UNCHANGED <<is_connected, reconnect_attempts, ws, ping_task, listen_task,
                   is_shutting_down, transport, closed, tasks, disconnect_task,
                   emit_log, failed_connects, active_connections>>
    /\ UNCHANGED <<ping_failed, book_vars, app_vars>>

\* The venue or the network drops the transport of adapter a: its open
\* connection closes and handshakes fail until the transport is restored
TransportDrop(a) ==
    /\ transport[a] = "up"
    /\ ws[a] = NoConn \/ ws[a] \in closed[a] \/ ws[a] < MaxConns
    /\ transport' = [transport EXCEPT ![a] = "down"]
    /\ closed' = [closed EXCEPT ![a] = IF ws[a] = NoConn THEN @ ELSE @ \cup {ws[a]}]
    /\ UNCHANGED <<is_connected, reconnect_attempts, subscribed_symbols, ws, ping_task,
                   listen_task, is_shutting_down, tasks, main_task, disconnect_task,
                   sent, emit_log, failed_connects, active_connections>>
    /\ UNCHANGED <<ping_failed, book_vars, app_vars>>

TransportRestore(a) ==
    /\ transport[a] = "down"
    /\ transport' = [transport EXCEPT ![a] = "up"]
    /\ UNCHANGED <<is_connected, reconnect_attempts, subscribed_symbols, ws, ping_task,
                   listen_task, is_shutting_down, closed, tasks, main_task,
                   disconnect_task, sent, emit_log, failed_connects, active_connections>>
    /\ UNCHANGED <<ping_failed, book_vars, app_vars>>

\* _listen_messages on connection c sees the connection closed and enters
\* _handle_disconnect, which runs up to its sleep or to its end
ListenerClosed(a, c) ==
    /\ tasks[a][c].pc = "listening"
    /\ c \in closed[a]
    /\ is_connected' = [is_connected EXCEPT ![a] = FALSE]
    /\ ping_task' = [ping_task EXCEPT ![a] = NoConn]
    /\ IF ~is_shutting_down[a] /\ reconnect_attempts[a] < max_reconnect_attempts
       THEN /\ reconnect_attempts' = [reconnect_attempts EXCEPT ![a] = @ + 1]
            /\ tasks' = [tasks EXCEPT ![a][c] =
                            [NoTask EXCEPT !.pc = "sleep",
                                           !.at_disconnect = subscribed_symbols[a]]]
            /\ UNCHANGED <<emit_log, active_connections>>
       ELSE /\ tasks' = [tasks EXCEPT ![a][c] =
                            [NoTask EXCEPT !.pc = "done",
                                           !.at_disconnect = subscribed_symbols[a],
                                           !.outcome = IF is_shutting_down[a]
                                                       THEN "shutting_down"
                                                       ELSE "exhausted"]]
            /\ emit_log' = IF is_shutting_down[a] THEN emit_log
                           ELSE [emit_log EXCEPT ![a] =
                                    Append(@, <<"max_reconnect_attempts_reached", a>>)]
            /\ active_connections' = IF is_shutting_down[a] THEN active_connections
                                     ELSE active_connections \ {a}
            /\ UNCHANGED reconnect_attempts
    /\ UNCHANGED <<subscribed_symbols, ws, listen_task, is_shutting_down, transport,
                   closed, main_task, disconnect_task, sent, failed_connects>>
    /\ UNCHANGED <<ping_failed, book_vars, app_vars>>

\* _handle_disconnect of the listener of connection c: the sleep is over and
\* connect() returns or raises; after a success the loop over
\* subscribed_symbols.copy() starts, an exception ends the handler
Reconnect(a, c) ==
    /\ tasks[a][c].pc = "sleep"
    /\ transport[a] = "up" => ws[a] < MaxConns
    /\ IF transport[a] = "up"
       THEN ConnectSucceeds(a, ws[a] + 1,
                [tasks EXCEPT ![a][c] =
                    IF subscribed_symbols[a] = {}
                    THEN [@ EXCEPT !.pc = "done", !.new_ws = ws[a] + 1,
                                   !.outcome = "resubscribed"]
                    ELSE [@ EXCEPT !.pc = "resub", !.new_ws = ws[a] + 1,
                                   !.todo = subscribed_symbols[a]]])
       ELSE /\ ConnectFails(a)
            /\ tasks' = [tasks EXCEPT ![a][c] =
                            [@ EXCEPT !.pc = "done", !.outcome = "connect_failed"]]
    /\ UNCHANGED <<subscribed_symbols, is_shutting_down, transport, closed, main_task,
                   disconnect_task, sent, emit_log, active_connections>>
    /\ UNCHANGED <<ping_failed, book_vars, app_vars>>

\* _handle_disconnect: one turn of the loop over the copied set, in the
\* order the set yields its elements; an exception of subscribe ends the handler
Resubscribe(a, c) ==
    /\ tasks[a][c].pc = "resub"
    /\ \E symbol \in tasks[a][c].todo :
         \E r \in {subscribe(a, symbol, is_connected[a], subscribed_symbols[a],
                             ws[a], closed[a], sent[a])} :
            /\ subscribed_symbols' = [subscribed_symbols EXCEPT ![a] = r.subscribed_symbols]
            /\ sent' = [sent EXCEPT ![a] = r.sent]
            /\ tasks' = [tasks EXCEPT ![a][c] =
                            IF r.raised
                            THEN [@ EXCEPT !.pc = "done", !.outcome = "subscribe_failed"]
                            ELSE IF @.todo = {symbol}
                            THEN [@ EXCEPT !.pc = "done", !.todo = {},
                                           !.outcome = "resubscribed"]
                            ELSE [@ EXCEPT !.todo = @ \ {symbol}]]
    /\ UNCHANGED <<is_connected, reconnect_attempts, ws, ping_task, listen_task,
                   is_shutting_down, transport, closed, main_task, disconnect_task,
                   emit_log, failed_connects, active_connections>>
    /\ UNCHANGED <<ping_failed, book_vars, app_vars>>

\* disconnect() up to its await of ws.close(), or to its end when there is no
\* open connection to close
Disconnect(a) ==
    /\ disconnect_task[a] = "idle"
    /\ is_shutting_down' = [is_shutting_down EXCEPT ![a] = TRUE]
    /\ ping_task' = [ping_task EXCEPT ![a] = NoConn]
    /\ listen_task' = [listen_task EXCEPT ![a] = NoConn]
    /\ tasks' = IF /\ listen_task[a] # NoConn
                   /\ tasks[a][listen_task[a]].pc \in {"listening", "sleep", "resub"}
                THEN [tasks EXCEPT ![a][listen_task[a]].pc = "cancelled"]
                ELSE tasks
    /\ IF ws[a] # NoConn /\ ws[a] \notin closed[a]
       THEN /\ closed' = [closed EXCEPT ![a] = @ \cup {ws[a]}]
            /\ disconnect_task' = [disconnect_task EXCEPT ![a] = "closing"]
            /\ UNCHANGED <<is_connected, subscribed_symbols>>
       ELSE /\ is_connected' = [is_connected EXCEPT ![a] = FALSE]
            /\ subscribed_symbols' = [subscribed_symbols EXCEPT ![a] = {}]
            /\ disconnect_task' = [disconnect_task EXCEPT ![a] = "done"]
            /\ UNCHANGED closed
    /\ UNCHANGED <<reconnect_attempts, ws, transport, main_task, sent, emit_log,
                   failed_connects, active_connections>>
    /\ UNCHANGED <<ping_failed, book_vars, app_vars>>

\* disconnect() after ws.close() returned
DisconnectFinish(a) ==
    /\ disconnect_task[a] = "closing"
    /\ is_connected' = [is_connected EXCEPT ![a] = FALSE]
    /\ subscribed_symbols' = [subscribed_symbols EXCEPT ![a] = {}]
    /\ disconnect_task' = [disconnect_task EXCEPT ![a] = "done"]
    /\ UNCHANGED <<reconnect_attempts, ws, ping_task, listen_task, is_shutting_down,
                   transport, closed, tasks, main_task, sent, emit_log,
                   failed_connects, active_connections>>
    /\ UNCHANGED <<ping_failed, book_vars, app_vars>>

\* The venue closes the open connection of adapter a with close code 1000:
\* the iteration over self.ws in _listen_messages ends without an exception
\* and the listener returns without entering _handle_disconnect
VenueClosesNormally(a) ==
    /\ ws[a] # NoConn /\ ws[a] \notin closed[a]
    /\ tasks[a][ws[a]].pc = "listening"
    /\ closed' = [closed EXCEPT ![a] = @ \cup {ws[a]}]
    /\ tasks' = [tasks EXCEPT ![a][ws[a]] =
                    [@ EXCEPT !.pc = "done", !.outcome = "closed_ok"]]
    /\ UNCHANGED <<is_connected, reconnect_attempts, subscribed_symbols, ws, ping_task,
                   listen_task, is_shutting_down, transport, main_task, disconnect_task,
                   sent, emit_log, failed_connects, active_connections, ping_failed>>
    /\ UNCHANGED <<book_vars, app_vars>>

\* ping_loop of start_ping: the send of the adapter's ping frame, or
\* ws.ping() when get_ping_message() is None, raises on the closed
\* connection; the error is logged and the loop breaks.  A heartbeat
\* written on an open connection changes nothing and is left out.
PingFails(a) ==
    /\ ping_task[a] # NoConn /\ ping_task[a] = ws[a]
    /\ <<a, ws[a]>> \notin ping_failed
    /\ is_connected[a] /\ ~is_shutting_down[a]
    /\ ws[a] \in closed[a]
    /\ ping_failed' = ping_failed \cup {<<a, ws[a]>>}
    /\ UNCHANGED <<is_connected, reconnect_attempts, subscribed_symbols, ws, ping_task,
                   listen_task, is_shutting_down, transport, closed, tasks, main_task,
                   disconnect_task, sent, emit_log, failed_connects, active_connections>>
    /\ UNCHANGED <<book_vars, app_vars>>

\* A caller unsubscribes adapter a from symbol, after the fetcher has gone
\* through the configured symbols of a
Unsubscribe(a, symbol, limit) ==
    /\ main_task[a].pc \in {"done", "failed"}
    /\ n_updates < limit
    /\ n_updates' = n_updates + 1
    /\ \E r \in {unsubscribe(a, symbol, is_connected[a], subscribed_symbols[a],
                             ws[a], closed[a], sent[a])} :
          /\ subscribed_symbols' = [subscribed_symbols EXCEPT ![a] = r.subscribed_symbols]
          /\ sent' = [sent EXCEPT ![a] = r.sent]
          /\ last_op' = [op |-> "unsubscribe",
                         route |-> IF r.raised THEN "raised" ELSE "returned",
                         arg |-> <<a, symbol>>, events |-> <<>>, ret |-> 0]
    /\ UNCHANGED <<is_connected, reconnect_attempts, ws, ping_task, listen_task,
                   is_shutting_down, transport, closed, tasks, main_task, disconnect_task,
                   emit_log, failed_connects, active_connections, ping_failed>>
    /\ UNCHANGED <<prices, last_updated, last_arbitrage_alert, now, config_format,
                   alert_log, n_ticks, event_callbacks, received, loop_tasks,
                   snapshot, shared, target_symbols, last_frame, codec_vars, app_vars>>

\* what the event loop runs for adapter a
AdapterStep(a) ==
    \/ MainConnect(a)
    \/ MainSubscribe(a)
    \/ DisconnectFinish(a)
    \/ \E c \in Conns : ListenerClosed(a, c) \/ Reconnect(a, c) \/ Resubscribe(a, c)

ConnInit ==
    /\ InitBook
    /\ InitConn
    /\ config_format = "legacy"

ConnNext ==
    \/ \E a \in Adapters : MainConnect(a)
    \/ \E a \in Adapters : MainSubscribe(a)
    \/ \E a \in Adapters : TransportDrop(a)
    \/ \E a \in Adapters : TransportRestore(a)
    \/ \E a \in Adapters, c \in Conns : ListenerClosed(a, c)
    \/ \E a \in Adapters, c \in Conns : Reconnect(a, c)
    \/ \E a \in Adapters, c \in Conns : Resubscribe(a, c)
    \/ \E a \in Adapters : Disconnect(a)
    \/ \E a \in Adapters : DisconnectFinish(a)

\* The adapters with their connections coming and going
ConnSpec == ConnInit /\ [][ConnNext]_vars

\* The same, with the event loop running every task that can run
ConnLiveSpec == ConnSpec /\ \A a \in Adapters : WF_vars(AdapterStep(a))

MaxUnsubscribes == 2

\* The adapters with callers that unsubscribe
UnsubscribeNext ==
    \/ \E a \in Adapters : MainConnect(a)
    \/ \E a \in Adapters : MainSubscribe(a)
    \/ \E a \in Adapters : TransportDrop(a)
    \/ \E a \in Adapters : TransportRestore(a)
    \/ \E a \in Adapters, c \in Conns : ListenerClosed(a, c)
    \/ \E a \in Adapters, c \in Conns : Reconnect(a, c)
    \/ \E a \in Adapters, c \in Conns : Resubscribe(a, c)
    \/ \E a \in Adapters, i \in 1..Len(configured_symbols) :
           Unsubscribe(a, configured_symbols[i], MaxUnsubscribes)

UnsubscribeSpec == ConnInit /\ [][UnsubscribeNext]_vars

\* The adapters with their heartbeats, on connections that the venue closes
\* with or without an error
HeartbeatNext ==
    \/ \E a \in Adapters : MainConnect(a)
    \/ \E a \in Adapters : MainSubscribe(a)
    \/ \E a \in Adapters : TransportDrop(a)
    \/ \E a \in Adapters : TransportRestore(a)
    \/ \E a \in Adapters : VenueClosesNormally(a)
    \/ \E a \in Adapters : PingFails(a)
    \/ \E a \in Adapters, c \in Conns : ListenerClosed(a, c)
    \/ \E a \in Adapters, c \in Conns : Reconnect(a, c)
    \/ \E a \in Adapters, c \in Conns : Resubscribe(a, c)

HeartbeatSpec == ConnInit /\ [][HeartbeatNext]_vars

\* the event loop runs every task that can run, the ping loops too
HeartbeatLiveSpec ==
    HeartbeatSpec /\ \A a \in Adapters : WF_vars(AdapterStep(a) \/ PingFails(a))

-----------------------------------------------------------------------------
(* Properties of the price book *)

AllSymbols == {BTCUSDT, btcusdt, BTC_PERPETUAL, FOO_PERPETUAL}
AllExchanges == {binance, bybit, deribit, test}

\* the book holds a quote of exchange e for symbol s
HasEntry(P, s, e) == s \in DOMAIN P /\ e \in Keys(P[s])

\* C1: a quote for (symbol, exchange) is in prices exactly when a
\* last_updated stamp for that pair is present, for every symbol an adapter
\* emits, also one that contains '-'
C1_QuoteIffStamp ==
    \A s \in AllSymbols : \A e \in AllExchanges :
        HasEntry(prices, s, e) <=> format_key(s, e) \in DOMAIN last_updated

\* C2: when remove_stale_data(max_age) returns, every pair whose last update
\* is older than max_age has neither a quote nor a stamp left
C2_ReapRemovesStale ==
    [][last_op'.op = "remove_stale_data" =>
          \A s \in AllSymbols : \A e \in AllExchanges :
              (/\ HasEntry(prices, s, e)
               /\ format_key(s, e) \in DOMAIN last_updated
               /\ (now - last_updated[format_key(s, e)]) > last_op'.arg)
              => (/\ ~HasEntry(prices', s, e)
                  /\ format_key(s, e) \notin DOMAIN last_updated')]_vars

\* C3: two arbitrage_opportunity events for one symbol are never less than
\* arbitrage_alert_cooldown apart, whatever is reaped in between
C3_OneAlertPerCooldown ==
    \A a \in alert_log : \A b \in alert_log :
        (a[1] = b[1] /\ a[2] < b[2]) => (b[2] - a[2]) >= arbitrage_alert_cooldown

\* the events called name among those of the last operation
EventsNamed(name) == SelectSeq(last_op.events, LAMBDA ev : ev.event = name)

\* C4: in symbol_ticker mode an update whose (exchange, ticker) has no
\* configured pair leaves prices, last_updated and last_arbitrage_alert as
\* they were and emits no price_update
C4_UnmappedDropped ==
    [][last_op'.route = "unmapped" =>
          /\ UNCHANGED <<prices, last_updated, last_arbitrage_alert>>
          /\ \A i \in 1..Len(last_op'.events) : last_op'.events[i].event # "price_update"]_vars

\* C8: every stored quote has price > 0, and bid > 0 and ask > 0 when set
C8_PositiveQuotes ==
    \A s \in DOMAIN prices : \A i \in 1..Len(prices[s]) :
        LET q == prices[s][i].data IN
        /\ q.price > 0
        /\ q.bid # None => Val(q.bid) > 0
        /\ q.ask # None => Val(q.ask) > 0

\* C9: get_symbols() contains s exactly when the book holds an exchange
\* entry for s: no symbol maps to an empty exchange map
C9_NoEmptySymbol ==
    \A s \in AllSymbols :
        s \in get_symbols(prices) <=> \E e \in AllExchanges : HasEntry(prices, s, e)

\* a reap has just removed at least two entries and emptied the book
C9_ReapedToEmpty ==
    /\ last_op.op = "remove_stale_data"
    /\ last_op.ret >= 2
    /\ get_symbols(prices) = {}

\* C10: a quote written under a symbol in some letter case is the entry that
\* get_prices_by_symbol and is_stale refer to for that symbol in any letter case
C10_CaseFolded ==
    \A s \in DOMAIN prices : \A v \in AllSymbols :
        upper(v) = upper(s) =>
            /\ get_prices_by_symbol(prices, v) = Some(prices[s])
            /\ \A e \in Keys(prices[s]) : \A age \in MaxAges :
                   is_stale(last_updated, v, e, age, now)
                       = is_stale(last_updated, s, e, age, now)

-----------------------------------------------------------------------------
(* Properties of the adapters *)

\* a subscribe frame for symbol was written on connection c of adapter a
Covered(a, c, symbol) ==
    \E i \in 1..Len(sent[a]) :
        sent[a][i] = [conn |-> c, frame |-> get_subscribe_message(a, symbol)]

\* the connection adapter a opened last has closed, and nobody asked the
\* adapter to disconnect
HasDropped(a) ==
    ws[a] # NoConn /\ ws[a] \in closed[a] /\ ~is_shutting_down[a]

\* adapter a is connected on an open connection with its listener running
ListenerRunning(a) ==
    /\ is_connected[a]
    /\ ws[a] # NoConn /\ ws[a] \notin closed[a]
    /\ tasks[a][ws[a]].pc = "listening"

\* C5: when _handle_disconnect has reconnected and finished its loop over
\* the subscribed symbols, and the new connection is still open, a subscribe
\* frame covering each symbol that was subscribed at the disconnect has been
\* written on the new connection, for every adapter
C5_ResubscribedAll ==
    \A a \in Adapters, c \in Conns :
        ( /\ tasks[a][c].pc = "done"
          /\ tasks[a][c].outcome = "resubscribed"
          /\ tasks[a][c].new_ws \notin closed[a] )
        => \A symbol \in tasks[a][c].at_disconnect :
               Covered(a, tasks[a][c].new_ws, symbol)

\* C6: an adapter whose connection dropped, whose transport is available
\* again and which has failed fewer than max_reconnect_attempts connection
\* attempts, is eventually connected again with its listener running, unless
\* the transport drops again or the adapter is told to disconnect
C6_EventuallyReconnected ==
    \A a \in Adapters :
        ( /\ HasDropped(a)
          /\ transport[a] = "up"
          /\ failed_connects[a] < max_reconnect_attempts )
        ~> ( ListenerRunning(a) \/ transport[a] = "down" \/ is_shutting_down[a] )

\* C7: an adapter whose connection dropped and whose transport stays
\* unavailable eventually has made max_reconnect_attempts failed attempts
\* and emitted max_reconnect_attempts_reached with its name, unless the
\* transport comes back or the adapter is told to disconnect
C7_EventuallyExhausted ==
    \A a \in Adapters :
        ( HasDropped(a) /\ transport[a] = "down" )
        ~> ( \/ /\ failed_connects[a] >= max_reconnect_attempts
                /\ \E i \in 1..Len(emit_log[a]) :
                       emit_log[a][i] = <<"max_reconnect_attempts_reached", a>>
             \/ transport[a] = "up"
             \/ is_shutting_down[a] )

-----------------------------------------------------------------------------
(* Properties of the symbol routing *)

\* the quotes of exchange e stored under symbols other than s are those that
\* were there before the step
OnlyWrittenUnder(s, e) ==
    \A other \in DOMAIN prices' :
        (other # s /\ HasEntry(prices', other, e))
        => /\ HasEntry(prices, other, e)

\* a step of the mapped mode that delivers a frame of exchange e carrying
\* the ticker of the configured pair i leaves a quote of e under the pair's
\* display_symbol and writes none under another symbol
MappedTo(i, e, ticker, step) ==
    ( /\ config_format = "symbol_ticker"
      /\ pairs[i].exchange = e
      /\ pairs[i].ticker = ticker
      /\ step )
    => /\ HasEntry(prices', pairs[i].display_symbol, e)
       /\ OnlyWrittenUnder(pairs[i].display_symbol, e)

\* C11: in mapped mode, for every configured pair and every adapter, a valid
\* quote frame carrying the pair's ticker becomes a book entry of that
\* exchange under exactly the pair's display_symbol
C11_MappedRoundTrip ==
    [][\A i \in 1..Len(pairs) :
         /\ MappedTo(i, binance, BinanceQuote.s,
                     BinanceFrame({BinanceQuote}, MaxVenueUpdates))
         /\ MappedTo(i, deribit, DeribitQuote.instrument_name,
                     DeribitFrame({DeribitQuote}, MaxVenueUpdates))
         /\ MappedTo(i, gateio, GateioQuote.contract,
                     GateioFrame({GateioQuote}, MaxVenueUpdates))
         /\ MappedTo(i, phemex, PhemexQuote.symbol,
                     PhemexFrame({PhemexQuote}, MaxVenueUpdates))]_vars

\* the symbol every exchange is configured with in the legacy format
legacy_symbol == BTCUSDT

\* a step of the legacy mode that delivers a frame of exchange e on the
\* channel that subscribe(legacy_symbol) asked for leaves a quote of e under
\* legacy_symbol
LegacyKept(e, channel, step) ==
    ( /\ config_format = "legacy"
      /\ get_subscribe_message(e, legacy_symbol).params = channel
      /\ step )
    => HasEntry(prices', legacy_symbol, e)

\* C12: in legacy mode, for every adapter, a valid quote received for a
\* symbol that was subscribed as s is stored in the book under s
C12_LegacyKeyIsSymbol ==
    [][ /\ LegacyKept(binance, lower(BinanceQuote.s) \o <<"@bookTicker">>,
                       BinanceFrame({BinanceQuote}, MaxVenueUpdates))
        /\ LegacyKept(deribit, <<"ticker.">> \o DeribitQuote.instrument_name \o <<".100ms">>,
                       DeribitFrame({DeribitQuote}, MaxVenueUpdates))
        /\ LegacyKept(gateio, GateioQuote.contract,
                       GateioFrame({GateioQuote}, MaxVenueUpdates))
        /\ LegacyKept(phemex, PhemexQuote.symbol,
                       PhemexFrame({PhemexQuote}, MaxVenueUpdates))]_vars

-----------------------------------------------------------------------------
(* Properties of the queries *)

\* the symbols a query is made with: the book keys written in upper case
QuerySymbols == {BTCUSDT, BTC_PERPETUAL, FOO_PERPETUAL}

\* the exchanges that quote symbol s, and the price of one of them
Quoting(s) == IF s \in DOMAIN prices THEN Keys(prices[s]) ELSE {}
PriceOf(s, e) == Lookup(prices[s], e).price

\* |p_a - p_b| / min(p_a, p_b) * 100 is at least th (0 when the minimum is 0)
SpreadAtLeast(s, a, b, th) ==
    LET lo == Min(PriceOf(s, a), PriceOf(s, b))
        diff == Abs(PriceOf(s, a) - PriceOf(s, b))
    IN IF lo > 0 THEN diff * 100 * th.den >= th.num * lo ELSE 0 >= th.num

\* the exchanges an opportunity is about
PairOf(o) == {o.exchanges[1], o.exchanges[2]}

\* C13: check_arbitrage_opportunities(symbol, threshold) is empty when fewer
\* than two exchanges quote the symbol; otherwise it holds exactly one
\* opportunity for each unordered pair of exchanges whose spread percentage
\* is at least the threshold and none for another pair, and where the prices
\* differ buy_exchange is the cheaper and sell_exchange the dearer exchange
C13_OpportunitiesExact ==
    \A s \in QuerySymbols, th \in Thresholds :
        LET r == check_arbitrage_opportunities(prices, s, th)
            E == Quoting(s)
        IN IF Cardinality(E) < 2 THEN r = <<>>
           ELSE /\ \A a \in E, b \in E :
                     (a # b /\ SpreadAtLeast(s, a, b, th))
                     => Cardinality({i \in 1..Len(r) : PairOf(r[i]) = {a, b}}) = 1
                /\ \A i \in 1..Len(r) :
                     /\ PairOf(r[i]) \subseteq E
                     /\ Cardinality(PairOf(r[i])) = 2
                     /\ SpreadAtLeast(s, r[i].exchanges[1], r[i].exchanges[2], th)
                     /\ {r[i].buy_exchange, r[i].sell_exchange} \subseteq PairOf(r[i])
                     /\ PriceOf(s, r[i].exchanges[1]) # PriceOf(s, r[i].exchanges[2])
                        => PriceOf(s, r[i].buy_exchange) < PriceOf(s, r[i].sell_exchange)

\* three exchanges quote a symbol, and at the threshold 1 some pairs are
\* opportunities, one of them exactly at the threshold, and one pair is not
C13_SomePairsQualify ==
    /\ Cardinality(Quoting(BTCUSDT)) = 3
    /\ Len(check_arbitrage_opportunities(prices, BTCUSDT, Frac(1, 1))) = 2
    /\ \E a \in Quoting(BTCUSDT), b \in Quoting(BTCUSDT) :
          PriceOf(BTCUSDT, a) * 101 = PriceOf(BTCUSDT, b) * 100

\* the exchanges that hold a quote for symbol, whatever the case it was
\* written in
Holders(symbol) ==
    UNION {Keys(prices[k]) : k \in {k \in DOMAIN prices : upper(k) = upper(symbol)}}

\* the arbitrage_opportunity events of the last operation
Alerts == SelectSeq(last_op.events, LAMBDA ev : ev.event = "arbitrage_opportunity")

\* C14: arbitrage_opportunity is emitted only when at least two exchanges
\* hold a quote for the symbol of the update, and the list of opportunities
\* it carries is never empty
C14_AlertNeedsTwoQuotes ==
    \A i \in 1..Len(Alerts) :
        /\ Cardinality(Holders(last_op.arg.symbol)) >= 2
        /\ Alerts[i].data # <<>>

\* an update raised an alert with exactly two exchanges quoting its symbol
C14_AlertWithTwo ==
    /\ last_op.op = "update_price"
    /\ Len(Alerts) = 1
    /\ Cardinality(Holders(last_op.arg.symbol)) = 2

\* C15: update_price emits arbitrage_opportunity for a symbol only if there
\* is no previous alert for it or the previous alert is strictly more than
\* the cooldown old (an update exactly one cooldown after the alert is
\* suppressed), and an update that emits none leaves last_arbitrage_alert
\* as it was
C15_StrictCooldown ==
    [][last_op'.op = "update_price" =>
          LET symbol == last_op'.arg.symbol
              emitted == \E i \in 1..Len(last_op'.events) :
                            last_op'.events[i].event = "arbitrage_opportunity"
          IN /\ emitted => \/ symbol \notin DOMAIN last_arbitrage_alert
                            \/ now - last_arbitrage_alert[symbol] > arbitrage_alert_cooldown
             /\ ~emitted => last_arbitrage_alert' = last_arbitrage_alert]_vars

\* quotes an update_price for symbol could bring now, one of which differs
\* in price from whatever the book holds
Probes(symbol) ==
    {[symbol |-> symbol, exchange |-> binance, price |-> 100, bid |-> Some(99),
      ask |-> Some(101), timestamp |-> 0],
     [symbol |-> symbol, exchange |-> bybit, price |-> 101, bid |-> Some(100),
      ask |-> Some(102), timestamp |-> 0]}

\* can_send_alert is true exactly when an update_price for the symbol that
\* finds opportunities would emit the alert now
C16_StatusAgreesWithUpdate ==
    \A symbol \in QuerySymbols : \A q \in Probes(symbol) :
        LET r == update_price(prices, last_updated, last_arbitrage_alert, now, q)
            finds == check_arbitrage_opportunities(r.prices, symbol,
                                                   default_min_spread_percentage) # <<>>
            emits == \E i \in 1..Len(r.events) : r.events[i].event = "arbitrage_opportunity"
        IN finds =>
             (get_arbitrage_alert_status(last_arbitrage_alert, symbol, now).can_send_alert
                <=> emits)

\* after an alert for a symbol, can_send_alert is false until the cooldown
\* has elapsed
C16_QuietWithinCooldown ==
    \A a \in alert_log :
        now - a[2] < arbitrage_alert_cooldown
        => ~get_arbitrage_alert_status(last_arbitrage_alert, a[1], now).can_send_alert

\* C16: after an arbitrage alert for a symbol, get_arbitrage_alert_status
\* reports can_send_alert false until the cooldown has elapsed, and in every
\* state can_send_alert is true exactly when an update_price for the symbol
\* that finds opportunities would emit an alert now
C16_StatusTracksCooldown ==
    /\ C16_QuietWithinCooldown
    /\ C16_StatusAgreesWithUpdate

\* C17: get_spread(s, a, b) and get_spread(s, b, a) agree on spread,
\* spread_percentage, higher_price, lower_price and timestamp and differ at
\* most in higher and lower being swapped, and within one result higher and
\* lower are the two exchanges a and b, also when the two prices are equal
C17_SpreadSymmetric ==
    \A a \in QueryExchanges, b \in QueryExchanges :
        a # b =>
          LET x == get_spread(prices, ETHUSDT, a, b)
              y == get_spread(prices, ETHUSDT, b, a)
          IN /\ x = None <=> y = None
             /\ x # None =>
                  /\ Val(x).spread = Val(y).spread
                  /\ Val(x).spread_percentage = Val(y).spread_percentage
                  /\ Val(x).higher_price = Val(y).higher_price
                  /\ Val(x).lower_price = Val(y).lower_price
                  /\ Val(x).timestamp = Val(y).timestamp
                  /\ \/ Val(x).higher = Val(y).higher /\ Val(x).lower = Val(y).lower
                     \/ Val(x).higher = Val(y).lower /\ Val(x).lower = Val(y).higher
                  /\ {Val(x).higher, Val(x).lower} = {a, b}
                  /\ {Val(y).higher, Val(y).lower} = {a, b}

\* C18: get_spread(s, a, b) returns spread = |p_a - p_b|, higher_price = the
\* larger and lower_price = the smaller of the two prices and
\* spread_percentage = spread / lower_price * 100 (0 when lower_price is 0);
\* it returns None when the symbol is unknown or one of the exchanges has no
\* quote for it; for the prices 3000 and 3010 the spread is 10
C18_SpreadNumbers ==
    \A s \in {ETHUSDT, BTCUSDT} : \A a \in QueryExchanges, b \in QueryExchanges :
        LET x == get_spread(prices, s, a, b) IN
        IF ~(HasEntry(prices, s, a) /\ HasEntry(prices, s, b)) THEN x = None
        ELSE LET pa == PriceOf(s, a)
                 pb == PriceOf(s, b)
                 hi == IF pa >= pb THEN pa ELSE pb
                 lo == IF pa >= pb THEN pb ELSE pa
             IN /\ x # None
                /\ Val(x).spread = hi - lo
                /\ Val(x).higher_price = hi
                /\ Val(x).lower_price = lo
                /\ Val(x).spread_percentage.den > 0
                /\ IF lo = 0 THEN Val(x).spread_percentage.num = 0
                   ELSE Val(x).spread_percentage.num * lo
                          = (hi - lo) * 100 * Val(x).spread_percentage.den
                /\ {pa, pb} = {3000, 3010} => Val(x).spread = 10

\* one exchange quotes 3000, the next 3010 and a third 0; the spread of the
\* first two is 10, asked for with the cheaper exchange named last, and the
\* spread against the third has a lower_price of 0
C18_TenApart ==
    \E a \in QueryExchanges, b \in QueryExchanges, c \in QueryExchanges :
        /\ HasEntry(prices, ETHUSDT, a) /\ HasEntry(prices, ETHUSDT, b)
        /\ HasEntry(prices, ETHUSDT, c)
        /\ PriceOf(ETHUSDT, a) = 3000 /\ PriceOf(ETHUSDT, b) = 3010
        /\ PriceOf(ETHUSDT, c) = 0
        /\ Val(get_spread(prices, ETHUSDT, b, a)).spread = 10
        /\ Val(get_spread(prices, ETHUSDT, a, c)).lower_price = 0
        /\ get_spread(prices, BTCUSDT, a, b) = None

\* the exchanges that quote a bid (an ask) for symbol s
WithBid(s) == {e \in Quoting(s) : Lookup(prices[s], e).bid # None}
WithAsk(s) == {e \in Quoting(s) : Lookup(prices[s], e).ask # None}
BidOf(s, e) == Val(Lookup(prices[s], e).bid)
AskOf(s, e) == Val(Lookup(prices[s], e).ask)

\* C19: get_best_prices(symbol) returns as best_bid the largest bid and as
\* best_ask the smallest ask among the exchanges that quote one, each with
\* an exchange that quotes exactly that value; an exchange without the side
\* is passed over, a side nobody quotes is None, and the result is None when
\* the symbol has no quotes
C19_BestPrices ==
    \A s \in {ETHUSDT, BTCUSDT} :
        LET r == get_best_prices(prices, s) IN
        IF Quoting(s) = {} THEN r = None
        ELSE /\ r # None
             /\ IF WithBid(s) = {} THEN Val(r).best_bid = None
                ELSE /\ Val(r).best_bid # None
                     /\ \A e \in WithBid(s) : Val(Val(r).best_bid).price >= BidOf(s, e)
                     /\ Val(Val(r).best_bid).exchange \in WithBid(s)
                     /\ BidOf(s, Val(Val(r).best_bid).exchange) = Val(Val(r).best_bid).price
             /\ IF WithAsk(s) = {} THEN Val(r).best_ask = None
                ELSE /\ Val(r).best_ask # None
                     /\ \A e \in WithAsk(s) : Val(Val(r).best_ask).price <= AskOf(s, e)
                     /\ Val(Val(r).best_ask).exchange \in WithAsk(s)
                     /\ AskOf(s, Val(Val(r).best_ask).exchange) = Val(Val(r).best_ask).price

\* three exchanges quote the symbol, the first written holds the largest
\* bid, another the smallest ask, and one has no bid
C19_BestAmongThree ==
    /\ Cardinality(Quoting(ETHUSDT)) = 3
    /\ Cardinality(WithBid(ETHUSDT)) = 2
    /\ Cardinality({BidOf(ETHUSDT, e) : e \in WithBid(ETHUSDT)}) = 2
    /\ Val(Val(get_best_prices(prices, ETHUSDT)).best_bid).exchange
          = prices[ETHUSDT][1].exchange
    /\ Val(Val(get_best_prices(prices, ETHUSDT)).best_ask).exchange
          # prices[ETHUSDT][1].exchange
    /\ get_best_prices(prices, BTCUSDT) = None

\* when the quote of exchange e for symbol s was received
ReceivedAt(s, e) == last_updated[format_key(s, e)]

\* C20: when several exchanges quote the best bid (the best ask),
\* get_best_prices names the one whose quote was received most recently
C20_TieToMostRecent ==
    LET s == ETHUSDT
        r == get_best_prices(prices, s)
    IN r # None =>
         /\ Val(r).best_bid # None =>
              \A e \in WithBid(s) :
                  BidOf(s, e) = Val(Val(r).best_bid).price
                  => ReceivedAt(s, e) <= ReceivedAt(s, Val(Val(r).best_bid).exchange)
         /\ Val(r).best_ask # None =>
              \A e \in WithAsk(s) :
                  AskOf(s, e) = Val(Val(r).best_ask).price
                  => ReceivedAt(s, e) <= ReceivedAt(s, Val(Val(r).best_ask).exchange)

\* C21: when the best bid across exchanges is higher than the best ask
\* across exchanges, the spread_percentage of get_best_prices is not negative
C21_CrossedBookPercentage ==
    LET r == get_best_prices(prices, ETHUSDT) IN
    (/\ r # None
     /\ Val(r).best_bid # None
     /\ Val(r).best_ask # None
     /\ Val(Val(r).best_bid).price > Val(Val(r).best_ask).price)
    => /\ Val(r).spread_percentage # None
       /\ Val(Val(r).spread_percentage).den > 0
       /\ Val(Val(r).spread_percentage).num >= 0

-----------------------------------------------------------------------------
(* Properties of the reaper *)

\* the (symbol, exchange) pairs that have a quote in book P
Entries(P) == UNION {{<<s, e>> : e \in Keys(P[s])} : s \in DOMAIN P}

\* C22: remove_stale_data returns exactly the number of (symbol, exchange)
\* quote entries the call deleted from the book
C22_ReapCountsDeleted ==
    [][last_op'.op = "remove_stale_data" =>
          /\ Entries(prices') \subseteq Entries(prices)
          /\ last_op'.ret = Cardinality(Entries(prices) \ Entries(prices'))]_vars

\* a reap deleted two quotes and left a third, stale one in the book
C22_ReapedTwoOfThree ==
    /\ last_op.op = "remove_stale_data"
    /\ last_op.ret = 2
    /\ Cardinality(Entries(prices)) = 1
    /\ \E key \in {format_key(BTC_PERPETUAL, deribit), format_key(FOO_PERPETUAL, deribit)} :
          key \notin DOMAIN last_updated

\* the book, the stamps and the alert stamps after remove_stale_data(age) now
Reaped(age) == remove_stale_data(prices, last_updated, last_arbitrage_alert, now, age)
\* and after a second call at the same instant
ReapedTwice(age) ==
    remove_stale_data(Reaped(age).prices, Reaped(age).last_updated,
                      Reaped(age).last_arbitrage_alert, now, age)

\* C23: remove_stale_data called twice at the same instant with no update
\* in between leaves the book after the second call as it was after the
\* first, and the second call returns 0
C23_ReapIdempotent ==
    \A age \in MaxAges :
        /\ ReapedTwice(age).prices = Reaped(age).prices
        /\ ReapedTwice(age).last_updated = Reaped(age).last_updated
        /\ ReapedTwice(age).last_arbitrage_alert = Reaped(age).last_arbitrage_alert
        /\ ReapedTwice(age).removed_count = 0

\* a book of which a first reap deletes two quotes and keeps one
C23_FirstReapDeletes ==
    \E age \in MaxAges :
        /\ Reaped(age).removed_count = 2
        /\ Reaped(age).prices # <<>>
        /\ Reaped(age).prices # prices

\* C24: every key of last_arbitrage_alert is a symbol that has at least one
\* quote in the book; a reap that removes the last exchange entry of a
\* symbol removes the symbol's alert stamp in the same call
C24_AlertStampHasQuote ==
    \A s \in DOMAIN last_arbitrage_alert :
        s \in DOMAIN prices /\ prices[s] # <<>>

\* a reap has just removed the last quotes of a symbol whose alert was
\* young enough to be kept otherwise
C24_ReapedAlertedSymbol ==
    /\ last_op.op = "remove_stale_data"
    /\ last_op.ret >= 2
    /\ BTCUSDT \notin DOMAIN prices
    /\ \E a \in alert_log : a[1] = BTCUSDT /\ now - a[2] <= alert_cleanup_age

-----------------------------------------------------------------------------
(* Properties of the events *)

\* subscriber i of the event called name is in log: a sequence of calls made
\* or of tasks waiting
InLog(log, i, name) ==
    \E j \in 1..Len(log) : log[j].subscriber = i /\ log[j].event.event = name

\* every subscriber of the event called name was called, if it is a plain
\* function, or given a task, if it is a coroutine function
AllReached(CB, name, calls, waiting) ==
    \A i \in 1..Len(CB[name]) :
        IF CB[name][i].coroutine THEN InLog(waiting, i, name) ELSE InLog(calls, i, name)

\* C25: a subscriber that raises while it handles an event stops neither the
\* delivery of the event to the subscribers registered after it nor the
\* operation that emits: after update_price the quote is stored, every
\* subscriber of price_update was reached, and the arbitrage evaluation was
\* run, so that an alert that is due is recorded and reaches every one of
\* its subscribers
C25_RaisingSubscriberHarmless ==
    [][last_op'.op = "update_price" =>
          LET d == last_op'.arg
              due == /\ check_arbitrage_opportunities(prices', d.symbol,
                                                      default_min_spread_percentage) # <<>>
                     /\ _should_send_arbitrage_alert(last_arbitrage_alert, d.symbol, now)
          IN /\ book_quote(prices', d.symbol, d.exchange)
                  = Some([price |-> d.price, bid |-> d.bid, ask |-> d.ask,
                          timestamp |-> d.timestamp])
             /\ AllReached(event_callbacks, "price_update", received', loop_tasks')
             /\ due => /\ d.symbol \in DOMAIN last_arbitrage_alert'
                       /\ last_arbitrage_alert'[d.symbol] = now
                       /\ AllReached(event_callbacks, "arbitrage_opportunity",
                                     received', loop_tasks')]_vars

\* an update whose first price_update subscriber and first
\* arbitrage_opportunity subscriber raised, and the second of each was called
C25_RaisedAndDelivered ==
    /\ last_op.op = "update_price"
    /\ Len(last_op.events) = 2
    /\ \E i, j, k, l \in 1..Len(received) :
          /\ i < j /\ j < k /\ k < l
          /\ received[i].event.event = "price_update" /\ received[i].outcome = "raised"
          /\ received[j].event.event = "price_update" /\ received[j].outcome = "returned"
          /\ received[k].event.event = "arbitrage_opportunity"
          /\ received[k].outcome = "raised"
          /\ received[l].event.event = "arbitrage_opportunity"
          /\ received[l].outcome = "returned"

\* C26: in every update_price call price_update is emitted after the book
\* holds the new quote and before any arbitrage_opportunity of the call, and
\* every price_update subscriber, a plain function called on the spot or a
\* coroutine run as a task, that reads the book when it runs finds the quote
\* the event carries, or a newer one for the pair
C26_SubscriberSeesQuote ==
    /\ last_op.op = "update_price" =>
          /\ last_op.events[1].event = "price_update"
          /\ \A i \in 2..Len(last_op.events) :
                 last_op.events[i].event = "arbitrage_opportunity"
          /\ \A i, j \in 1..Len(received) :
                 (/\ received[i].event.event = "price_update"
                  /\ received[j].event.event = "arbitrage_opportunity") => i < j
    /\ \A j \in 1..Len(received) :
          received[j].event.event = "price_update" =>
             /\ received[j].saw # None
             /\ ~received[j].superseded => received[j].saw = Some(received[j].event.data.data)

\* a coroutine subscriber ran as a task after a second quote for the pair
\* had arrived, and found the second quote in the book
C26_TaskSawNewerQuote ==
    /\ last_op.op = "task"
    /\ Len(received) = 1
    /\ received[1].task
    /\ received[1].superseded
    /\ received[1].saw # None
    /\ received[1].saw # Some(received[1].event.data.data)

\* get_prices_by_symbol(symbol)[exchange] in book P, if there is one
QuoteRead(P, symbol, exchange) ==
    LET r == get_prices_by_symbol(P, symbol) IN
    IF r # None /\ exchange \in Keys(Val(r)) THEN Some(Lookup(Val(r), exchange)) ELSE None

\* C27: the quotes of one exchange for one symbol are applied in the order
\* they arrive: an update of the pair makes get_prices_by_symbol(symbol)
\* [exchange] the price, bid, ask and timestamp of that update, and until
\* the next update of the pair nothing changes them, a reap can only delete
\* them
C27_LastUpdateWins ==
    [][\A symbol \in {BTCUSDT}, exchange \in {binance, bybit} :
          IF /\ last_op'.op = "update_price"
             /\ last_op'.arg.symbol = symbol
             /\ last_op'.arg.exchange = exchange
          THEN QuoteRead(prices', symbol, exchange)
                  = Some([price |-> last_op'.arg.price, bid |-> last_op'.arg.bid,
                          ask |-> last_op'.arg.ask, timestamp |-> last_op'.arg.timestamp])
          ELSE IF last_op'.op = "remove_stale_data"
               THEN QuoteRead(prices', symbol, exchange)
                       \in {QuoteRead(prices, symbol, exchange), None}
               ELSE QuoteRead(prices', symbol, exchange)
                       = QuoteRead(prices, symbol, exchange)]_vars

\* a second, different quote of an exchange has just arrived while the
\* event of the first still waits for its subscriber
C27_SecondQuoteApplied ==
    /\ last_op.op = "update_price"
    /\ \E i \in 1..Len(loop_tasks) :
          /\ loop_tasks[i].superseded
          /\ loop_tasks[i].event.data.symbol = last_op.arg.symbol
          /\ loop_tasks[i].event.data.exchange = last_op.arg.exchange
          /\ loop_tasks[i].event.data.data.price # last_op.arg.price
          /\ QuoteRead(prices, last_op.arg.symbol, last_op.arg.exchange) # None

-----------------------------------------------------------------------------
(* Properties of the values the queries return *)

\* C28: the value returned by get_all_prices or get_prices_by_symbol is a
\* deep copy: no later update_price or remove_stale_data changes it, and a
\* change the caller makes to it, also to a quote record inside it, changes
\* nothing in the book
C28_ReturnedIsDeepCopy ==
    [][/\ last_op'.op \in {"update_price", "remove_stale_data"} => snapshot' = snapshot
       /\ last_op'.op = "change_returned" => prices' = prices]_vars

-----------------------------------------------------------------------------
(* Properties of the polled adapter *)

\* C29: a poll of the CoinDCX REST endpoint emits a price_update for a
\* tracked symbol only if the fetched price differs by at least 0.01% from
\* the price last emitted for that symbol, which the book still holds; a
\* poll that returns an unchanged price emits nothing
C29_EmitsOnlyOnChange ==
    [][(/\ last_op'.op = "update_price"
        /\ last_op'.arg.exchange = coindcx
        /\ book_quote(prices, last_op'.arg.symbol, coindcx) # None)
       => LET last == Val(book_quote(prices, last_op'.arg.symbol, coindcx)).price
              fetched == last_op'.arg.price
          IN Abs(fetched - last) * 10000 >= last]_vars

-----------------------------------------------------------------------------
(* Properties of the fixed-point decoding *)

\* the scale factor of a Phemex symbol of the frames: 10000 for BTCUSD,
\* 100000000 for XRPUSD, and 10000 for SOLUSD, which is not in the table
TableScale(symbol) ==
    IF symbol = <<"XRP", "USD">> THEN 100000000 ELSE 10000

\* the adapter has just handled frame, a Phemex frame of one of the two
\* orderbook formats whose first level on each side has a size
PhemexBest(frame) ==
    /\ last_op.op \in {"update_price", "frame"}
    /\ last_op.route # "api"
    /\ frame # <<>>
    /\ "format" \in DOMAIN frame
    /\ frame.format \in {"book", "orderbook.update"}
    /\ frame.bids # <<>> /\ frame.bids[1][2] > 0
    /\ frame.asks # <<>> /\ frame.asks[1][2] > 0

\* C30: from a Phemex frame of either orderbook format the adapter emits bid
\* and ask as the raw best bid and ask divided by the scale factor of the
\* frame's symbol (10000 when the symbol is not in the table), and last =
\* (bid + ask) / 2; raw 600010000 / 600030000 for BTCUSD give 60001, 60003
\* and 60002
C30_PhemexScaled ==
    PhemexBest(last_frame) =>
        /\ last_op.op = "update_price"
        /\ last_op.arg.exchange = phemex
        /\ last_op.arg.bid = Some(last_frame.bids[1][1] \div TableScale(last_frame.symbol))
        /\ last_op.arg.ask = Some(last_frame.asks[1][1] \div TableScale(last_frame.symbol))
        /\ 2 * last_op.arg.price = Val(last_op.arg.bid) + Val(last_op.arg.ask)
        /\ (/\ last_frame.symbol = BTCUSD
            /\ last_frame.bids[1][1] = 600010000
            /\ last_frame.asks[1][1] = 600030000)
           => /\ last_op.arg.bid = Some(60001)
              /\ last_op.arg.ask = Some(60003)
              /\ last_op.arg.price = 60002

\* the frame of the example was decoded in the orderbook.update format
C30_ExampleDecoded ==
    /\ PhemexBest(last_frame)
    /\ last_frame.format = "orderbook.update"
    /\ last_frame.symbol = BTCUSD
    /\ last_frame.bids[1][1] = 600010000
    /\ last_op.op = "update_price"
    /\ last_op.arg.price = 60002

-----------------------------------------------------------------------------
(* The fetcher's run and shutdown *)

\* CryptoFuturesPriceFetcher.shutdown from its call to its first suspension:
\* a call that finds the flag set returns at once; the first call sets the flag
\* and, if the cleanup task was started, cancels it and waits for it
shutdown_begin(flag, cleanup) ==
    IF flag
    THEN [is_shutting_down |-> TRUE, stale_cleanup_task |-> cleanup, pc |-> "returned"]
    ELSE IF cleanup = "running"
    THEN [is_shutting_down |-> TRUE, stale_cleanup_task |-> "cancelling", pc |-> "join"]
    ELSE [is_shutting_down |-> TRUE, stale_cleanup_task |-> cleanup, pc |-> "gather"]

\* run's finally block: the summary task is cancelled and shutdown is awaited;
\* run returns at once if shutdown does
run_finally(flag, cleanup) ==
    LET r == shutdown_begin(flag, cleanup)
    IN [is_shutting_down |-> r.is_shutting_down,
        stale_cleanup_task |-> r.stale_cleanup_task,
        summary_task |-> "cancelled",
        shutdown_pc |-> r.pc,
        run_pc |-> IF r.pc = "returned" THEN "returned" ELSE "shutdown"]

\* run after initialize_exchanges returned: it starts the cleanup and the
\* summary tasks and enters its loop, which it leaves at once if the flag is set
RunStarts ==
    /\ run_pc = "initialize"
    /\ \A a \in Adapters : main_task[a].pc \in {"done", "failed"}
    /\ IF active_connections = {}
       THEN /\ run_pc' = "exited"
            /\ UNCHANGED <<fetcher_is_shutting_down, stale_cleanup_task, summary_task,
                           shutdown_pc>>
       ELSE IF fetcher_is_shutting_down
       THEN \E r \in {run_finally(fetcher_is_shutting_down, "running")} :
               /\ fetcher_is_shutting_down' = r.is_shutting_down
               /\ stale_cleanup_task' = r.stale_cleanup_task
               /\ summary_task' = r.summary_task
               /\ shutdown_pc' = [shutdown_pc EXCEPT !["run"] = r.shutdown_pc]
               /\ run_pc' = r.run_pc
       ELSE /\ stale_cleanup_task' = "running"
            /\ summary_task' = "running"
            /\ run_pc' = "loop"
            /\ UNCHANGED <<fetcher_is_shutting_down, shutdown_pc>>
    /\ UNCHANGED <<book_vars, conn_vars>>

\* signal_handler: SIGINT or SIGTERM arrives and a task running shutdown is created
SignalHandler ==
    /\ run_pc \in {"initialize", "loop"}
    /\ shutdown_pc["signal"] = "none"
    /\ shutdown_pc' = [shutdown_pc EXCEPT !["signal"] = "created"]
    /\ UNCHANGED <<fetcher_is_shutting_down, stale_cleanup_task, summary_task, run_pc>>
    /\ UNCHANGED <<book_vars, conn_vars>>

\* the event loop runs the task of the signal handler up to its first suspension
ShutdownTaskStart ==
    /\ shutdown_pc["signal"] = "created"
    /\ \E r \in {shutdown_begin(fetcher_is_shutting_down, stale_cleanup_task)} :
          /\ fetcher_is_shutting_down' = r.is_shutting_down
          /\ stale_cleanup_task' = r.stale_cleanup_task
          /\ shutdown_pc' = [shutdown_pc EXCEPT !["signal"] = r.pc]
    /\ UNCHANGED <<summary_task, run_pc>>
    /\ UNCHANGED <<book_vars, conn_vars>>

\* cleanup_loop gets the CancelledError in its sleep and breaks
CleanupLoopCancelled ==
    /\ stale_cleanup_task = "cancelling"
    /\ stale_cleanup_task' = "done"
    /\ UNCHANGED <<fetcher_is_shutting_down, summary_task, run_pc, shutdown_pc>>
    /\ UNCHANGED <<book_vars, conn_vars>>

\* stop_stale_data_cleanup after its await of the task: the task is forgotten,
\* and shutdown goes on to gather the disconnect() of every exchange
ShutdownJoined(k) ==
    /\ shutdown_pc[k] = "join"
    /\ stale_cleanup_task = "done"
    /\ stale_cleanup_task' = "joined"
    /\ shutdown_pc' = [shutdown_pc EXCEPT ![k] = "gather"]
    /\ UNCHANGED <<fetcher_is_shutting_down, summary_task, run_pc>>
    /\ UNCHANGED <<book_vars, conn_vars>>

\* the disconnect() of exchange a that shutdown gathered starts
ShutdownDisconnect(k, a) ==
    /\ shutdown_pc[k] = "gather"
    /\ Disconnect(a)

\* shutdown after its gather: every disconnect() has returned
ShutdownComplete(k) ==
    /\ shutdown_pc[k] = "gather"
    /\ \A a \in Adapters : disconnect_task[a] = "done"
    /\ shutdown_pc' = [shutdown_pc EXCEPT ![k] = "complete"]
    /\ run_pc' = IF k = "run" THEN "returned" ELSE run_pc
    /\ UNCHANGED <<fetcher_is_shutting_down, stale_cleanup_task, summary_task>>
    /\ UNCHANGED <<book_vars, conn_vars>>

\* run's loop wakes from its sleep, finds the flag set and runs the finally block
RunWakes ==
    /\ run_pc = "loop"
    /\ fetcher_is_shutting_down
    /\ \E r \in {run_finally(fetcher_is_shutting_down, stale_cleanup_task)} :
          /\ fetcher_is_shutting_down' = r.is_shutting_down
          /\ stale_cleanup_task' = r.stale_cleanup_task
          /\ summary_task' = r.summary_task
          /\ shutdown_pc' = [shutdown_pc EXCEPT !["run"] = r.shutdown_pc]
          /\ run_pc' = r.run_pc
    /\ UNCHANGED <<book_vars, conn_vars>>

ShutdownNext ==
    \/ \E a \in Adapters : MainConnect(a)
    \/ \E a \in Adapters : MainSubscribe(a)
    \/ RunStarts
    \/ SignalHandler
    \/ ShutdownTaskStart
    \/ CleanupLoopCancelled
    \/ \E k \in ShutdownCallers : ShutdownJoined(k)
    \/ \E k \in ShutdownCallers, a \in Adapters : ShutdownDisconnect(k, a)
    \/ \E a \in Adapters : DisconnectFinish(a)
    \/ \E k \in ShutdownCallers : ShutdownComplete(k)
    \/ RunWakes

\* The fetcher from its start to its shutdown by a signal
ShutdownSpec == ConnInit /\ [][ShutdownNext]_vars

-----------------------------------------------------------------------------
(* Properties of the trade cache *)

\* the price of the last trade of ticker in the log, if there is one
RECURSIVE LastTrade(_, _)
LastTrade(log, ticker) ==
    IF log = <<>> THEN None
    ELSE IF log[Len(log)][1] = ticker THEN Some(log[Len(log)][2])
    ELSE LastTrade(SubSeq(log, 1, Len(log) - 1), ticker)

\* the BitMEX adapter has just handled a frame of the given table
BitmexHandled(table) ==
    /\ last_op.op \in {"update_price", "frame"}
    /\ last_op.route # "api"
    /\ "table" \in DOMAIN last_frame
    /\ last_frame.table = table

\* C31: a BitMEX quote frame for ticker t emits as price the most recent
\* trade price received for t when a trade of t was seen before and the mid
\* (bid + ask) / 2 otherwise, whatever was traded in other tickers; a trade
\* frame emits nothing
C31_LastTradeOrMid ==
    /\ ( /\ BitmexHandled("quote")
          /\ last_frame.data[1].bidPrice # 0
          /\ last_frame.data[1].askPrice # 0 )
       => LET quote == last_frame.data[1]
              traded == LastTrade(trade_log, quote.symbol)
          IN /\ last_op.op = "update_price"
             /\ Len(EventsNamed("price_update")) = 1
             /\ last_op.arg.exchange = bitmex
             /\ last_op.arg.price = IF traded # None THEN Val(traded)
                                    ELSE (quote.bidPrice + quote.askPrice) \div 2
    /\ BitmexHandled("trade")
       => /\ last_op.op = "frame"
          /\ last_op.events = <<>>
          /\ received = <<>>

\* a quote of XBTUSD went out at the price of its last trade, after a later
\* trade of ETHUSD
C31_QuoteAfterBothTraded ==
    /\ BitmexHandled("quote")
    /\ last_frame.data[1].symbol = XBTUSD
    /\ last_op.op = "update_price"
    /\ last_op.arg.price = 60200
    /\ Len(trade_log) >= 3
    /\ trade_log[Len(trade_log)] = <<ETHUSD, 3010>>

-----------------------------------------------------------------------------
(* Properties of the heartbeat *)

\* C32: an adapter whose heartbeat could not be sent enters its disconnect
\* handling: is_connected becomes false and a reconnect attempt is made
C32_PingFailureDisconnects ==
    \A a \in Adapters :
        (<<a, ws[a]>> \in ping_failed)
        ~> (~is_connected[a] /\ reconnect_attempts[a] > 0)

-----------------------------------------------------------------------------
(* Properties of the re-subscription *)

\* the places in the frames written by adapter a where a subscribe frame
\* for symbol went out on one of the connections conns
SentAt(a, conns, symbol) ==
    {i \in 1..Len(sent[a]) :
        /\ sent[a][i].conn \in conns
        /\ sent[a][i].frame = get_subscribe_message(a, symbol)}

\* adapter a wrote its first subscribe frame for symbol s1 on the
\* connections conns before any for s2
FirstBefore(a, conns, s1, s2) ==
    /\ SentAt(a, conns, s1) # {}
    /\ SentAt(a, conns, s2) # {}
    /\ \E i \in SentAt(a, conns, s1) : \A j \in SentAt(a, conns, s2) : i < j

\* C33: when _handle_disconnect has reconnected and re-subscribed, the
\* subscribe frames on the new connection went out in the order in which
\* the symbols were subscribed before, for any two subscribed symbols
C33_ResubscribedInOrder ==
    \A a \in Adapters, c \in Conns :
        ( /\ tasks[a][c].pc = "done"
          /\ tasks[a][c].outcome = "resubscribed" )
        => \A s1 \in tasks[a][c].at_disconnect, s2 \in tasks[a][c].at_disconnect :
               ( /\ FirstBefore(a, 1..(tasks[a][c].new_ws - 1), s1, s2)
                 /\ SentAt(a, {tasks[a][c].new_ws}, s1) # {}
                 /\ SentAt(a, {tasks[a][c].new_ws}, s2) # {} )
               => FirstBefore(a, {tasks[a][c].new_ws}, s1, s2)

-----------------------------------------------------------------------------
(* Properties of the disconnect *)

\* a task of adapter a that was started as a listener has not finished
LiveListener(a) ==
    \E c \in Conns : tasks[a][c].pc \in {"listening", "sleep", "resub"}

\* adapter a is not connected and none of its tasks is running
Quiet(a) ==
    /\ ~is_connected[a]
    /\ ping_task[a] = NoConn
    /\ ~LiveListener(a)

\* C34: when disconnect() of an adapter that had opened a connection
\* completes, the adapter is not connected and none of its listener and
\* heartbeat tasks is running, and from then on it stays so and connects no
\* more
C34_QuietAfterDisconnect ==
    [][\A a \in Adapters :
          /\ ( /\ disconnect_task[a] # "done"
                /\ disconnect_task'[a] = "done"
                /\ ws[a] # NoConn )
             => Quiet(a)'
          /\ ( /\ disconnect_task[a] = "done"
                /\ ws[a] # NoConn )
             => /\ Quiet(a) => Quiet(a)'
                /\ ws'[a] = ws[a]
                /\ reconnect_attempts'[a] = reconnect_attempts[a]
                /\ failed_connects'[a] = failed_connects[a]]_vars

-----------------------------------------------------------------------------
(* Properties of the first subscription *)

\* C35: once the first connection of an exchange is open, every symbol
\* configured for it is eventually in subscribed_symbols with a subscribe
\* frame written on an open connection, also when the connection drops and
\* comes back while the fetcher is still subscribing, unless the transport
\* goes down again or the adapter is told to disconnect
C35_EventuallySubscribed ==
    \A a \in Adapters : \A i \in 1..Len(configured_symbols) :
        ( /\ main_task[a].pc = "subscribe"
          /\ transport[a] = "up" )
        ~> ( \/ /\ configured_symbols[i] \in subscribed_symbols[a]
                /\ \E c \in Conns : Covered(a, c, configured_symbols[i])
             \/ transport[a] = "down"
             \/ is_shutting_down[a] )

-----------------------------------------------------------------------------
(* Properties of the unsubscription *)

\* C36: after unsubscribe(s) has returned on an adapter, connected or not,
\* s is not in subscribed_symbols of the adapter, and no later reconnect
\* puts it back
C36_UnsubscribedStaysOut ==
    (last_op.op = "unsubscribe" /\ last_op.route = "returned")
    => last_op.arg[2] \notin subscribed_symbols[last_op.arg[1]]

-----------------------------------------------------------------------------
(* Properties of the reaper's frame *)

\* the entry of exchange e for symbol s has a stamp that is not older than age
Fresh(s, e, age) ==
    /\ HasEntry(prices, s, e)
    /\ format_key(s, e) \in DOMAIN last_updated
    /\ (now - last_updated[format_key(s, e)]) <= age

\* C37: remove_stale_data(max_age) leaves every entry whose last update is
\* not older than max_age as it was: the quote and the stamp of the entry
\* are the same before and after the call
C37_FreshUntouched ==
    [][last_op'.op = "remove_stale_data" =>
          \A s \in AllSymbols : \A e \in AllExchanges :
              Fresh(s, e, last_op'.arg)
              => /\ HasEntry(prices', s, e)
                 /\ Lookup(prices'[s], e) = Lookup(prices[s], e)
                 /\ format_key(s, e) \in DOMAIN last_updated'
                 /\ last_updated'[format_key(s, e)] = last_updated[format_key(s, e)]]_vars

\* a reap removed the quote of one exchange for a symbol and left that of
\* another exchange for the same symbol, whose stamp is as old as max_age
C37_ReapedBesideFresh ==
    /\ last_op.op = "remove_stale_data"
    /\ last_op.ret >= 1
    /\ \E s \in AllSymbols : \E e \in AllExchanges :
           /\ Fresh(s, e, last_op.arg)
           /\ Len(prices[s]) = 1
           /\ now - last_updated[format_key(s, e)] = last_op.arg
           /\ \E d \in alert_log : d[1] = s

-----------------------------------------------------------------------------
(* Properties of the opportunities *)

\* min_spread of the /api/arbitrage/{symbol} route: the thresholds above, and 0
RouteThresholds == Thresholds \cup {Frac(0, 1)}

\* C38: every opportunity that check_arbitrage_opportunities returns, for
\* any threshold, 0 too, and any prices, equal ones too, names two different
\* exchanges as buy_exchange and sell_exchange
C38_BuyAndSellDiffer ==
    \A s \in QuerySymbols \cup {ETHUSDT}, th \in RouteThresholds :
        LET r == check_arbitrage_opportunities(prices, s, th)
        IN \A i \in 1..Len(r) : r[i].buy_exchange # r[i].sell_exchange

-----------------------------------------------------------------------------
(* Properties of the queries' frame *)

\* C39: get_prices_by_symbol, get_all_prices, get_spread, get_best_prices,
\* check_arbitrage_opportunities, get_arbitrage_alert_status,
\* get_market_summary and is_stale change nothing: prices, last_updated and
\* last_arbitrage_alert are the same before and after the call and no event
\* is emitted, so a check_arbitrage_opportunities query neither starts nor
\* resets a cooldown
C39_QueriesChangeNothing ==
    [][last_op'.route = "query" =>
          /\ UNCHANGED <<prices, last_updated, last_arbitrage_alert>>
          /\ last_op'.events = <<>>
          /\ received' = <<>>
          /\ alert_log' = alert_log
          /\ loop_tasks' = loop_tasks
          /\ \A sym \in {ETHUSDT, BTCUSDT} :
                 _should_send_arbitrage_alert(last_arbitrage_alert', sym, now')
                     = _should_send_arbitrage_alert(last_arbitrage_alert, sym, now)]_vars

\* a check_arbitrage_opportunities query found opportunities for a symbol
\* that is in its cooldown
C39_AskedWithinCooldown ==
    /\ last_op.route = "query"
    /\ last_op.op = "check_arbitrage_opportunities"
    /\ last_op.ret # <<>>
    /\ last_op.arg.symbol \in DOMAIN last_arbitrage_alert
    /\ now - last_arbitrage_alert[last_op.arg.symbol] < arbitrage_alert_cooldown

-----------------------------------------------------------------------------
(* Properties of the shutdown *)

\* everything shutdown has to do is done: the cleanup task is cancelled and
\* joined and disconnect() has returned for every exchange
ShutdownDone ==
    /\ stale_cleanup_task = "joined"
    /\ \A a \in Adapters : disconnect_task[a] = "done"

\* C40: when run returns from its loop after a signal asked for the shutdown,
\* the cleanup task has been cancelled and joined and disconnect() has completed
\* for every exchange
C40_RunReturnsAfterShutdown ==
    [][(run_pc = "loop" /\ run_pc' = "returned" /\ shutdown_pc'["signal"] # "none")
          => ShutdownDone']_vars

====
